---- MODULE Spec2Model ----
(***************************************************************************)
(* A model of the fastC compiler driver (crates/fastc): lexer, parser,     *)
(* module loader, resolver, type checker, P10 analyzer and lowerer, and of *)
(* the C it produces.                                                      *)
(*                                                                         *)
(* A source is a sequence of lexemes, written one space apart; the lexeme  *)
(* "\n" is a line break.  The lexer model classifies each lexeme (the      *)
(* segmentation of bytes into lexemes is not modelled).  A span is         *)
(* modelled by its start, the byte offset of its first lexeme; the span of *)
(* the body of a function is kept with its end.                            *)
(* Every syntax node is a record with the same fields, children are held   *)
(* in sequences.                                                           *)
(***************************************************************************)
EXTENDS Integers, Sequences, FiniteSets, TLC

\* Binds a computed value to a name for the rest of an expression.
Let(value, In(_)) == In(value)

(***************************************************************************)
(* Text.  Chars gives the Unicode code points of the identifiers that      *)
(* occur in the sources of the model; every other lexeme is ASCII.  The    *)
(* text of a source is its lexemes separated by one space.                 *)
(***************************************************************************)

Chars ==
    [n \in {"f", "g", "h", "k", "x", "y", "s", "p", "P", "Q", "a", "b", "c", "d", "m",
            "fo", "é"} |->
        CASE n = "f" -> <<102>> [] n = "g" -> <<103>> [] n = "h" -> <<104>>
          [] n = "k" -> <<107>> [] n = "x" -> <<120>> [] n = "y" -> <<121>>
          [] n = "s" -> <<115>> [] n = "p" -> <<112>> [] n = "P" -> <<80>>
          [] n = "a" -> <<97>>  [] n = "m" -> <<109>> [] n = "fo" -> <<102, 111>>
          [] n = "Q" -> <<81>>  [] n = "b" -> <<98>>  [] n = "c" -> <<99>>
          [] n = "d" -> <<100>>
          [] OTHER -> <<233>>]

\* The number of bytes of the UTF-8 encoding of a code point.
Utf8Width(c) == IF c < 128 THEN 1 ELSE IF c < 2048 THEN 2 ELSE IF c < 65536 THEN 3 ELSE 4

RECURSIVE SumWidths(_)
SumWidths(cs) == IF cs = <<>> THEN 0 ELSE Utf8Width(Head(cs)) + SumWidths(Tail(cs))

\* str::len: the length in bytes.
ByteLen(name) == SumWidths(Chars[name])

\* The number of bytes of a lexeme.
Width(l) == IF l \in DOMAIN Chars THEN ByteLen(l) ELSE Len(l)

RECURSIVE Offset(_, _)

\* The byte offset at which lexeme i of the source starts.
Offset(source, i) ==
    IF i = 1 THEN 0 ELSE Offset(source, i - 1) + Width(source[i - 1]) + 1

\* str::len of the text of a source.
SourceLen(source) ==
    IF source = <<>> THEN 0
    ELSE Offset(source, Len(source)) + Width(source[Len(source)])

\* The characters of C type names and of function names in the order of
\* their codes.
Ascii == "0123456789ABCDEFGHIJKLMNOPQRSTUVWXYZ_abcdefghijklmnopqrstuvwxyz"

Code(c) == CHOOSE i \in 1..Len(Ascii) : SubSeq(Ascii, i, i) = c

RECURSIVE TextLess(_, _), InsertText(_, _), sort(_), Iter(_, _)

\* String::cmp = Less
TextLess(a, b) ==
    IF b = "" THEN FALSE
    ELSE IF a = "" THEN TRUE
    ELSE IF Head(a) # Head(b) THEN Code(Head(a)) < Code(Head(b))
    ELSE TextLess(Tail(a), Tail(b))

InsertText(sorted, t) ==
    IF sorted = <<>> THEN <<t>>
    ELSE IF TextLess(t, Head(sorted)) THEN <<t>> \o sorted
    ELSE <<Head(sorted)>> \o InsertText(Tail(sorted), t)

\* The names left in the order in which the set was iterated.
unsorted(names) == names

\* Vec<String>::sort
sort(names) ==
    IF names = <<>> THEN <<>>
    ELSE InsertText(sort(SubSeq(names, 1, Len(names) - 1)), names[Len(names)])

\* HashSet::iter: the elements of the set in the order the seed selects; the
\* seeds 0 .. n! - 1 give every order of a set of n elements.
Iter(set, seed) ==
    IF set = {} THEN <<>>
    ELSE Let(CHOOSE f \in [1..Cardinality(set) -> set] :
                \A i, j \in 1..Cardinality(set) : i < j => TextLess(f[i], f[j]), LAMBDA asc :
         Let(asc[(seed % Len(asc)) + 1], LAMBDA first :
         <<first>> \o Iter(set \ {first}, seed \div Len(asc))))

\* HashMap::insert
insert(map, key, value) ==
    [n \in DOMAIN map \cup {key} |-> IF n = key THEN value ELSE map[n]]

(***************************************************************************)
(* Lexer (lexer/token.rs, lexer/mod.rs, lexer/trivia.rs)                   *)
(***************************************************************************)

\* Keywords of the modelled part of the language.
Keywords ==
    {"fn", "unsafe", "struct", "enum", "mod", "extern", "let", "return", "if", "else",
     "while", "for", "break", "continue", "defer", "discard",
     "switch", "case", "default", "true", "false", "at", "deref", "addr", "cast",
     "i32", "i64", "u32", "f64", "bool", "void", "slice", "ref", "mref", "raw", "rawm",
     "arr", "opt", "res"}

\* Punctuation and operators.
Punct ==
    {"(", ")", "{", "}", ",", ";", ":", "->", "=", ".",
     "+", "-", "*", "/", "%", "==", "!=", "<", "<=", ">", ">=", "&&", "||", "!",
     "&", "|", "^", "<<", ">>"}

\* Decimal integer literals and their values.
IntLits ==
    [l \in {"0", "1", "2", "3", "4"} |->
        CASE l = "0" -> 0 [] l = "1" -> 1 [] l = "2" -> 2 [] l = "3" -> 3
          [] OTHER -> 4]

\* Comment lexemes.
Comments == {"// c", "/* c */"}

\* String literal lexemes, written with their quotes.
StringLits == {"\"C\""}

\* One token: its kind t, its lexeme s, its value n, the start pos of its span.
Tok(t, s, n, pos) == [t |-> t, s |-> s, n |-> n, pos |-> pos]

\* Lexer::next for one lexeme: a keyword or punctuation is its own kind, a
\* slice that matches no rule is returned as an identifier.
LexOne(l, pos) ==
    IF l \in Comments THEN Tok("Comment", l, 0, pos)
    ELSE IF l \in Keywords \cup Punct THEN Tok(l, l, 0, pos)
    ELSE IF l \in DOMAIN IntLits THEN Tok("IntLit", l, IntLits[l], pos)
    ELSE IF l \in StringLits THEN Tok("StringLit", l, 0, pos)
    ELSE Tok("Ident", l, 0, pos)

\* Lexer::new(source).collect(): every lexeme but the line breaks, which
\* the lexer skips as whitespace, then the Eof token.
Lex(source) ==
    SelectSeq([i \in 1..(Len(source) + 1) |->
                  IF i <= Len(source) THEN LexOne(source[i], Offset(source, i))
                  ELSE Tok("Eof", "", 0, SourceLen(source))],
              LAMBDA t : t.s # "\n")

\* strip_comments: the tokens that are not comments, in order.
strip_comments(tokens) ==
    SelectSeq(tokens, LAMBDA t : t.t # "Comment")

(***************************************************************************)
(* Syntax trees (ast/expr.rs, ast/stmt.rs, ast/decl.rs, ast/types.rs)      *)
(***************************************************************************)

\* Expr and ConstExpr: kind k, name or operator s, literal value n, children
\* kids, field names fs (struct literals), start of the span sp.
E(k, s, n, kids, fs, sp) ==
    [k |-> k, s |-> s, n |-> n, kids |-> kids, fs |-> fs, sp |-> sp, ty |-> <<>>]

\* Expr::Cast: the target type is held in ty.
Cast(ty, expr, sp) == [E("Cast", "", 0, <<expr>>, <<>>, sp) EXCEPT !.ty = <<ty>>]

\* TypeExpr: kind k, name s, type arguments kids, array size sz.
T(k, s, kids, sz) == [k |-> k, s |-> s, kids |-> kids, sz |-> sz]

\* Stmt: kind k, declared name s, declared type ty, expressions e, blocks
\* body and els, the form of the else branch (none, else, elseif), start of
\* the span sp; init and step are the header clauses of a for statement.
S(k, s, ty, e, body, els, hasElse, sp) ==
    [k |-> k, s |-> s, ty |-> ty, e |-> e, body |-> body, els |-> els,
     hasElse |-> hasElse, sp |-> sp, init |-> <<>>, step |-> <<>>]

\* Stmt::For: ForInit and ForStep are held as the statement of the same form
\* (Let, Assign, Expr for Call); they have no span.
For(init, cond, step, body, sp) ==
    [S("For", "", <<>>, cond, body, <<>>, "none", sp) EXCEPT !.init = init, !.step = step]

\* Item: kind k, name, is_unsafe, parameters or fields, return type, body
\* statements, nested items of a module, whether a module has an inline
\* body, start of the span sp, start and end of the span of the body of a
\* function body_sp.
I(k, name, is_unsafe, params, ret, body, items, hasBody, sp, body_sp) ==
    [k |-> k, name |-> name, is_unsafe |-> is_unsafe, params |-> params,
     ret |-> ret, body |-> body, items |-> items, hasBody |-> hasBody,
     sp |-> sp, body_sp |-> body_sp]

\* A parameter or struct field.
Param(name, ty, sp) == [name |-> name, ty |-> ty, sp |-> sp]

(***************************************************************************)
(* Diagnostics (diag/errors.rs)                                            *)
(***************************************************************************)

\* One CompileError: kind, code (P10 only), message, span, hint and the source
\* it points into.
Diag(kind, msg, span, hint, src) ==
    [kind |-> kind, code |-> "", msg |-> msg, span |-> span, hint |-> hint,
     src |-> src, errors |-> <<>>]

\* CompileError::multiple for a list of one error or more: the error itself,
\* or the variant Multiple that holds the list.
multiple(errors) ==
    IF Len(errors) = 1 THEN errors[1]
    ELSE [kind |-> "Multiple", code |-> "", msg |-> "", span |-> 0, hint |-> "",
          src |-> <<>>, errors |-> errors]

(***************************************************************************)
(* Parser (parser/mod.rs, parser/expr.rs, parser/types.rs, parser/stmt.rs, *)
(* parser/decl.rs).  A parser state ps holds the stripped tokens, the      *)
(* source and its length in bytes; p is the index of the current token.    *)
(* Every parse function returns a result: ok, the nodes v, the next        *)
(* position p, the error err.                                              *)
(***************************************************************************)

\* Parser::new
ParserNew(toks, src) == [toks |-> toks, src |-> src, len |-> SourceLen(src)]

ParseOk(v, p) == [ok |-> TRUE, v |-> v, p |-> p, err |-> <<>>]

\* Parser::current
current(ps, p) ==
    IF p <= Len(ps.toks) THEN ps.toks[p] ELSE Tok("Eof", "", 0, ps.len)

\* Parser::current_span
current_span(ps, p) == current(ps, p).pos

\* Parser::is_at_end
is_at_end(ps, p) == current(ps, p).t = "Eof"

\* Parser::check
check(ps, p, t) == current(ps, p).t = t

\* Parser::advance
advance(ps, p) == IF is_at_end(ps, p) THEN p ELSE p + 1

\* Parser::error
error(ps, p, message) ==
    [ok |-> FALSE, v |-> <<>>, p |-> p,
     err |-> <<Diag("Parse", message, current_span(ps, p), "", ps.src)>>]

\* consume(expected, message) at position p, then continue with the result k.
Expect(ps, p, t, message, k) == IF check(ps, p, t) THEN k ELSE error(ps, p, message)

\* Token::is_binary_op and the table of Parser::try_parse_binop
BinOpOf ==
    [t \in {"+", "-", "*", "/", "%", "==", "!=", "<", "<=", ">", ">=", "&&", "||",
            "&", "|", "^", "<<", ">>"} |->
        CASE t = "&" -> "BitAnd" [] t = "|" -> "BitOr" [] t = "^" -> "BitXor"
          [] t = "<<" -> "Shl" [] t = ">>" -> "Shr"
          [] t = "+" -> "Add" [] t = "-" -> "Sub" [] t = "*" -> "Mul"
          [] t = "/" -> "Div" [] t = "%" -> "Rem" [] t = "==" -> "Eq"
          [] t = "!=" -> "Ne" [] t = "<" -> "Lt" [] t = "<=" -> "Le"
          [] t = ">" -> "Gt" [] t = ">=" -> "Ge" [] t = "&&" -> "And"
          [] OTHER -> "Or"]

is_binary_op(t) == t \in DOMAIN BinOpOf

RECURSIVE parse_type(_, _), Parse(_, _, _)
RECURSIVE parse_binary(_, _), parse_unary(_, _), parse_postfix_loop(_, _, _),
          parse_primary(_, _), parse_call_args(_, _, _),
          parse_struct_fields(_, _, _, _)

\* Parser::parse_expr
parse_expr(ps, p) == parse_binary(ps, p)

parse_binary(ps, p) ==
    Let(parse_unary(ps, p), LAMBDA left :
    IF ~left.ok THEN left
    ELSE IF is_binary_op(current(ps, left.p).t) THEN
        Let(BinOpOf[current(ps, left.p).t], LAMBDA op :
            Let(parse_unary(ps, advance(ps, left.p)), LAMBDA right :
        IF ~right.ok THEN right
        ELSE IF is_binary_op(current(ps, right.p).t)
        THEN error(ps, right.p, "chained binary operators require parentheses")
        ELSE ParseOk(<<E("Binary", op, 0, <<left.v[1], right.v[1]>>, <<>>,
                       current_span(ps, p))>>, right.p)))
    ELSE left)

parse_unary(ps, p) ==
    IF current(ps, p).t \in {"-", "!"} THEN
        Let(parse_unary(ps, advance(ps, p)), LAMBDA operand :
        IF ~operand.ok THEN operand
        ELSE ParseOk(<<E("Unary", IF current(ps, p).t = "-" THEN "Neg" ELSE "Not",
                         0, <<operand.v[1]>>, <<>>, current_span(ps, p))>>, operand.p))
    ELSE Let(parse_primary(ps, p), LAMBDA prim :
         IF ~prim.ok THEN prim ELSE parse_postfix_loop(ps, prim.p, prim.v[1]))

\* The loop of Parser::parse_postfix with parse_call and parse_field_access.
parse_postfix_loop(ps, p, expr) ==
    IF check(ps, p, "(") THEN
        Let(        IF check(ps, p + 1, ")") THEN ParseOk(<<>>, p + 1)
                    ELSE parse_call_args(ps, p + 1, <<>>), LAMBDA args :
        IF ~args.ok THEN args
        ELSE IF ~check(ps, args.p, ")") THEN error(ps, args.p, "expected ')'")
        ELSE parse_postfix_loop(ps, args.p + 1,
                                E("Call", "", 0, <<expr>> \o args.v, <<>>, expr.sp)))
    ELSE IF check(ps, p, ".") THEN
        IF ~check(ps, p + 1, "Ident") THEN error(ps, p + 1, "expected identifier")
        ELSE parse_postfix_loop(ps, p + 2,
                                E("Field", current(ps, p + 1).s, 0, <<expr>>, <<>>, expr.sp))
    ELSE ParseOk(<<expr>>, p)

\* The argument loop of Parser::parse_call, entered before an argument.
parse_call_args(ps, p, acc) ==
    Let(Parse("parse_expr", ps, p), LAMBDA arg :
    IF ~arg.ok THEN arg
    ELSE IF check(ps, arg.p, ",") THEN
        IF check(ps, arg.p + 1, ")") THEN ParseOk(acc \o arg.v, arg.p + 1)
        ELSE parse_call_args(ps, arg.p + 1, acc \o arg.v)
    ELSE ParseOk(acc \o arg.v, arg.p))

\* The field loop of a struct literal in Parser::parse_primary.
parse_struct_fields(ps, p, names, vals) ==
    IF ~check(ps, p, "Ident") THEN error(ps, p, "expected identifier")
    ELSE IF ~check(ps, p + 1, ":") THEN error(ps, p + 1, "expected ':' in struct literal")
    ELSE Let(Parse("parse_expr", ps, p + 2), LAMBDA value :
         IF ~value.ok THEN value
         ELSE Let(Append(names, current(ps, p).s), LAMBDA ns :
                  Let(vals \o value.v, LAMBDA vs :
              IF ~check(ps, value.p, ",") THEN ParseOk(<<ns, vs>>, value.p)
              ELSE IF check(ps, value.p + 1, "}") THEN ParseOk(<<ns, vs>>, value.p + 1)
              ELSE parse_struct_fields(ps, value.p + 1, ns, vs))))

\* A builtin of one operand: kw '(' expr ')'
parse_builtin1(ps, p, kind, kw) ==
    IF ~check(ps, p + 1, "(") THEN error(ps, p + 1, "expected '(' after '" \o kw \o "'")
    ELSE Let(Parse("parse_expr", ps, p + 2), LAMBDA operand :
         IF ~operand.ok THEN operand
         ELSE IF ~check(ps, operand.p, ")") THEN error(ps, operand.p, "expected ')'")
         ELSE ParseOk(<<E(kind, "", 0, operand.v, <<>>, current_span(ps, p))>>, operand.p + 1))

parse_primary(ps, p) ==
    Let(current(ps, p), LAMBDA t :
    CASE t.t = "IntLit" -> ParseOk(<<E("IntLit", "", t.n, <<>>, <<>>, t.pos)>>, p + 1)
      [] t.t = "true"  -> ParseOk(<<E("BoolLit", "true", 1, <<>>, <<>>, t.pos)>>, p + 1)
      [] t.t = "false" -> ParseOk(<<E("BoolLit", "false", 0, <<>>, <<>>, t.pos)>>, p + 1)
      [] t.t = "(" ->
            Let(Parse("parse_expr", ps, p + 1), LAMBDA inner :
            IF ~inner.ok THEN inner
            ELSE IF ~check(ps, inner.p, ")") THEN error(ps, inner.p, "expected ')'")
            ELSE ParseOk(<<E("Paren", "", 0, inner.v, <<>>, t.pos)>>, inner.p + 1))
      [] t.t = "addr"  -> parse_builtin1(ps, p, "Addr", "addr")
      [] t.t = "deref" -> parse_builtin1(ps, p, "Deref", "deref")
      [] t.t = "at" ->
            IF ~check(ps, p + 1, "(") THEN error(ps, p + 1, "expected '(' after 'at'")
            ELSE Let(Parse("parse_expr", ps, p + 2), LAMBDA base :
                 IF ~base.ok THEN base
                 ELSE IF ~check(ps, base.p, ",") THEN error(ps, base.p, "expected ',' in 'at'")
                 ELSE Let(Parse("parse_expr", ps, base.p + 1), LAMBDA index :
                      IF ~index.ok THEN index
                      ELSE IF ~check(ps, index.p, ")") THEN error(ps, index.p, "expected ')'")
                      ELSE ParseOk(<<E("At", "", 0, <<base.v[1], index.v[1]>>, <<>>, t.pos)>>,
                                   index.p + 1)))
      [] t.t = "cast" ->
            Expect(ps, p + 1, "(", "expected '(' after 'cast'",
                Let(Parse("parse_type", ps, p + 2), LAMBDA ty :
                IF ~ty.ok THEN ty
                ELSE Expect(ps, ty.p, ",", "expected ',' in 'cast'",
                    Let(Parse("parse_expr", ps, ty.p + 1), LAMBDA expr :
                    IF ~expr.ok THEN expr
                    ELSE Expect(ps, expr.p, ")", "expected ')'",
                            ParseOk(<<Cast(ty.v[1], expr.v[1], t.pos)>>, expr.p + 1))))))
      [] t.t = "Ident" ->
            IF check(ps, p + 1, "{") THEN
                Let(          IF check(ps, p + 2, "}") THEN ParseOk(<<<<>>, <<>>>>, p + 2)
                              ELSE parse_struct_fields(ps, p + 2, <<>>, <<>>), LAMBDA fields :
                IF ~fields.ok THEN fields
                ELSE IF ~check(ps, fields.p, "}") THEN error(ps, fields.p, "expected '}'")
                ELSE ParseOk(<<E("StructLit", t.s, 0, fields.v[2], fields.v[1], t.pos)>>,
                             fields.p + 1))
            ELSE ParseOk(<<E("Ident", t.s, 0, <<>>, <<>>, t.pos)>>, p + 1)
      [] OTHER -> error(ps, p, "expected expression"))

RECURSIVE parse_const_binary(_, _), parse_const_unary(_, _),
          parse_const_primary(_, _)

\* Parser::parse_const_expr
parse_const_expr(ps, p) == parse_const_binary(ps, p)

parse_const_binary(ps, p) ==
    Let(parse_const_unary(ps, p), LAMBDA left :
    IF ~left.ok THEN left
    ELSE IF is_binary_op(current(ps, left.p).t) THEN
        Let(BinOpOf[current(ps, left.p).t], LAMBDA op :
            Let(parse_const_unary(ps, advance(ps, left.p)), LAMBDA right :
        IF ~right.ok THEN right
        ELSE IF is_binary_op(current(ps, right.p).t)
        THEN error(ps, right.p, "chained binary operators require parentheses")
        ELSE ParseOk(<<E("Binary", op, 0, <<left.v[1], right.v[1]>>, <<>>, 0)>>, right.p)))
    ELSE left)

parse_const_unary(ps, p) ==
    IF current(ps, p).t \in {"-", "!"} THEN
        Let(parse_const_unary(ps, advance(ps, p)), LAMBDA operand :
        IF ~operand.ok THEN operand
        ELSE ParseOk(<<E("Unary", IF current(ps, p).t = "-" THEN "Neg" ELSE "Not",
                         0, <<operand.v[1]>>, <<>>, 0)>>, operand.p))
    ELSE parse_const_primary(ps, p)

parse_const_primary(ps, p) ==
    Let(current(ps, p), LAMBDA t :
    CASE t.t = "IntLit" -> ParseOk(<<E("IntLit", "", t.n, <<>>, <<>>, 0)>>, p + 1)
      [] t.t = "true"  -> ParseOk(<<E("BoolLit", "true", 1, <<>>, <<>>, 0)>>, p + 1)
      [] t.t = "false" -> ParseOk(<<E("BoolLit", "false", 0, <<>>, <<>>, 0)>>, p + 1)
      [] t.t = "Ident" -> ParseOk(<<E("Ident", t.s, 0, <<>>, <<>>, 0)>>, p + 1)
      [] t.t = "(" ->
            Let(parse_const_expr(ps, p + 1), LAMBDA inner :
            IF ~inner.ok THEN inner
            ELSE Expect(ps, inner.p, ")", "expected ')'",
                        ParseOk(<<E("Paren", "", 0, inner.v, <<>>, 0)>>, inner.p + 1)))
      [] OTHER -> error(ps, p, "expected constant expression"))

\* PrimitiveType of a type keyword.
PrimitiveOf ==
    [t \in {"i32", "i64", "u32", "f64", "bool"} |->
        CASE t = "i32" -> "I32" [] t = "i64" -> "I64" [] t = "u32" -> "U32"
          [] t = "f64" -> "F64"
          [] OTHER -> "Bool"]

\* A type constructor of one argument: kw '(' type ')'
parse_type1(ps, p, kind, kw) ==
    Expect(ps, p + 1, "(", "expected '(' after '" \o kw \o "'",
        Let(Parse("parse_type", ps, p + 2), LAMBDA inner :
        IF ~inner.ok THEN inner
        ELSE Expect(ps, inner.p, ")", "expected ')'",
                    ParseOk(<<T(kind, "", inner.v, <<>>)>>, inner.p + 1))))

parse_type(ps, p) ==
    Let(current(ps, p), LAMBDA t :
    CASE t.t \in DOMAIN PrimitiveOf ->
            ParseOk(<<T("Primitive", PrimitiveOf[t.t], <<>>, <<>>)>>, p + 1)
      [] t.t = "void"  -> ParseOk(<<T("Void", "", <<>>, <<>>)>>, p + 1)
      [] t.t = "ref"   -> parse_type1(ps, p, "Ref", "ref")
      [] t.t = "mref"  -> parse_type1(ps, p, "Mref", "mref")
      [] t.t = "raw"   -> parse_type1(ps, p, "Raw", "raw")
      [] t.t = "rawm"  -> parse_type1(ps, p, "Rawm", "rawm")
      [] t.t = "slice" -> parse_type1(ps, p, "Slice", "slice")
      [] t.t = "arr" ->
            Expect(ps, p + 1, "(", "expected '(' after 'arr'",
                Let(Parse("parse_type", ps, p + 2), LAMBDA elem :
                IF ~elem.ok THEN elem
                ELSE Expect(ps, elem.p, ",", "expected ',' in arr type",
                    Let(parse_const_expr(ps, elem.p + 1), LAMBDA size :
                    IF ~size.ok THEN size
                    ELSE Expect(ps, size.p, ")", "expected ')'",
                            ParseOk(<<T("Arr", "", elem.v, size.v)>>, size.p + 1))))))
      [] t.t = "opt"   -> parse_type1(ps, p, "Opt", "opt")
      [] t.t = "res" ->
            Expect(ps, p + 1, "(", "expected '(' after 'res'",
                Let(Parse("parse_type", ps, p + 2), LAMBDA ok_type :
                IF ~ok_type.ok THEN ok_type
                ELSE Expect(ps, ok_type.p, ",", "expected ',' in res type",
                    Let(Parse("parse_type", ps, ok_type.p + 1), LAMBDA err_type :
                    IF ~err_type.ok THEN err_type
                    ELSE Expect(ps, err_type.p, ")", "expected ')'",
                            ParseOk(<<T("Res", "", ok_type.v \o err_type.v, <<>>)>>,
                                    err_type.p + 1))))))
      [] t.t = "Ident" -> ParseOk(<<T("Named", t.s, <<>>, <<>>)>>, p + 1)
      [] OTHER -> error(ps, p, "expected type"))

RECURSIVE parse_stmt(_, _), parse_block(_, _), parse_block_stmts(_, _, _),
          parse_if_stmt(_, _), parse_arm_stmts(_, _, _),
          parse_switch_arms(_, _, _, _, _)

\* The statement loop of Parser::parse_block.
parse_block_stmts(ps, p, acc) ==
    IF check(ps, p, "}") \/ is_at_end(ps, p) THEN ParseOk(acc, p)
    ELSE Let(parse_stmt(ps, p), LAMBDA st :
         IF ~st.ok THEN st ELSE parse_block_stmts(ps, st.p, acc \o st.v))

\* Parser::parse_block; v is the sequence of statements of the block.
parse_block(ps, p) ==
    Expect(ps, p, "{", "expected '{'",
        Let(parse_block_stmts(ps, p + 1, <<>>), LAMBDA stmts :
        IF ~stmts.ok THEN stmts
        ELSE Expect(ps, stmts.p, "}", "expected '}'", ParseOk(stmts.v, stmts.p + 1))))

\* Parser::parse_let_stmt
parse_let_stmt(ps, p) ==
    IF ~check(ps, p + 1, "Ident") THEN error(ps, p + 1, "expected identifier")
    ELSE Expect(ps, p + 2, ":", "expected ':' after variable name",
        Let(Parse("parse_type", ps, p + 3), LAMBDA ty :
        IF ~ty.ok THEN ty
        ELSE Expect(ps, ty.p, "=", "expected '=' in let statement",
            Let(Parse("parse_expr", ps, ty.p + 1), LAMBDA init :
            IF ~init.ok THEN init
            ELSE Expect(ps, init.p, ";", "expected ';'",
                ParseOk(<<S("Let", current(ps, p + 1).s, ty.v, init.v, <<>>, <<>>,
                            "none", current_span(ps, p))>>, init.p + 1))))))

\* Parser::parse_if_stmt (the if-let form is not modelled)
parse_if_stmt(ps, p) ==
    Expect(ps, p + 1, "(", "expected '(' after 'if'",
        Let(Parse("parse_expr", ps, p + 2), LAMBDA cond :
        IF ~cond.ok THEN cond
        ELSE Expect(ps, cond.p, ")", "expected ')'",
            Let(Parse("parse_block", ps, cond.p + 1), LAMBDA then_block :
            IF ~then_block.ok THEN then_block
            ELSE IF check(ps, then_block.p, "else") THEN
                IF check(ps, then_block.p + 1, "if") THEN
                    Let(parse_if_stmt(ps, then_block.p + 1), LAMBDA elif :
                    IF ~elif.ok THEN elif
                    ELSE ParseOk(<<S("If", "", <<>>, cond.v, then_block.v, elif.v,
                                     "elseif", current_span(ps, p))>>, elif.p))
                ELSE Let(Parse("parse_block", ps, then_block.p + 1), LAMBDA else_block :
                     IF ~else_block.ok THEN else_block
                     ELSE ParseOk(<<S("If", "", <<>>, cond.v, then_block.v,
                                      else_block.v, "else", current_span(ps, p))>>,
                                  else_block.p))
            ELSE ParseOk(<<S("If", "", <<>>, cond.v, then_block.v, <<>>, "none",
                             current_span(ps, p))>>, then_block.p)))))

\* Parser::parse_while_stmt
parse_while_stmt(ps, p) ==
    Expect(ps, p + 1, "(", "expected '(' after 'while'",
        Let(Parse("parse_expr", ps, p + 2), LAMBDA cond :
        IF ~cond.ok THEN cond
        ELSE Expect(ps, cond.p, ")", "expected ')'",
            Let(Parse("parse_block", ps, cond.p + 1), LAMBDA body :
            IF ~body.ok THEN body
            ELSE ParseOk(<<S("While", "", <<>>, cond.v, body.v, <<>>, "none",
                             current_span(ps, p))>>, body.p)))))

\* The init and step clauses of Parser::parse_for_stmt that start with an
\* expression: ForInit::Assign or ForInit::Call, ForStep::Assign or
\* ForStep::Call.
parse_for_clause(ps, p) ==
    Let(Parse("parse_expr", ps, p), LAMBDA expr :
    IF ~expr.ok THEN expr
    ELSE IF check(ps, expr.p, "=") THEN
        Let(Parse("parse_expr", ps, expr.p + 1), LAMBDA rhs :
        IF ~rhs.ok THEN rhs
        ELSE ParseOk(<<S("Assign", "", <<>>, expr.v \o rhs.v, <<>>, <<>>, "none", 0)>>, rhs.p))
    ELSE ParseOk(<<S("Expr", "", <<>>, expr.v, <<>>, <<>>, "none", 0)>>, expr.p))

\* The init clause of Parser::parse_for_stmt.
parse_for_init(ps, p) ==
    IF check(ps, p, ";") THEN ParseOk(<<>>, p)
    ELSE IF check(ps, p, "let") THEN
        IF ~check(ps, p + 1, "Ident") THEN error(ps, p + 1, "expected identifier")
        ELSE Expect(ps, p + 2, ":", "expected ':'",
            Let(Parse("parse_type", ps, p + 3), LAMBDA ty :
            IF ~ty.ok THEN ty
            ELSE Expect(ps, ty.p, "=", "expected '='",
                Let(Parse("parse_expr", ps, ty.p + 1), LAMBDA init_expr :
                IF ~init_expr.ok THEN init_expr
                ELSE ParseOk(<<S("Let", current(ps, p + 1).s, ty.v, init_expr.v, <<>>, <<>>,
                                 "none", 0)>>, init_expr.p)))))
    ELSE parse_for_clause(ps, p)

\* Parser::parse_for_stmt
parse_for_stmt(ps, p) ==
    Expect(ps, p + 1, "(", "expected '(' after 'for'",
        Let(parse_for_init(ps, p + 2), LAMBDA init :
        IF ~init.ok THEN init
        ELSE Expect(ps, init.p, ";", "expected ';' after for init",
            Let(IF check(ps, init.p + 1, ";") THEN ParseOk(<<>>, init.p + 1)
                ELSE Parse("parse_expr", ps, init.p + 1), LAMBDA cond :
            IF ~cond.ok THEN cond
            ELSE Expect(ps, cond.p, ";", "expected ';' after for condition",
                Let(IF check(ps, cond.p + 1, ")") THEN ParseOk(<<>>, cond.p + 1)
                    ELSE parse_for_clause(ps, cond.p + 1), LAMBDA step :
                IF ~step.ok THEN step
                ELSE Expect(ps, step.p, ")", "expected ')'",
                    Let(Parse("parse_block", ps, step.p + 1), LAMBDA body :
                    IF ~body.ok THEN body
                    ELSE ParseOk(<<For(init.v, cond.v, step.v, body.v,
                                       current_span(ps, p))>>, body.p)))))))))

\* Parser::parse_defer_stmt
parse_defer_stmt(ps, p) ==
    Let(Parse("parse_block", ps, p + 1), LAMBDA body :
    IF ~body.ok THEN body
    ELSE ParseOk(<<S("Defer", "", <<>>, <<>>, body.v, <<>>, "none",
                     current_span(ps, p))>>, body.p))

\* Parser::parse_discard_stmt
parse_discard_stmt(ps, p) ==
    Expect(ps, p + 1, "(", "expected '(' after 'discard'",
        Let(Parse("parse_expr", ps, p + 2), LAMBDA expr :
        IF ~expr.ok THEN expr
        ELSE Expect(ps, expr.p, ")", "expected ')'",
            Expect(ps, expr.p + 1, ";", "expected ';'",
                ParseOk(<<S("Discard", "", <<>>, expr.v, <<>>, <<>>, "none",
                            current_span(ps, p))>>, expr.p + 2)))))

\* Parser::parse_return_stmt
parse_return_stmt(ps, p) ==
    Let(         IF check(ps, p + 1, ";") THEN ParseOk(<<>>, p + 1)
                 ELSE Parse("parse_expr", ps, p + 1), LAMBDA value :
    IF ~value.ok THEN value
    ELSE Expect(ps, value.p, ";", "expected ';'",
            ParseOk(<<S("Return", "", <<>>, value.v, <<>>, <<>>, "none",
                        current_span(ps, p))>>, value.p + 1)))

\* Parser::parse_unsafe_block
parse_unsafe_block(ps, p) ==
    Let(Parse("parse_block", ps, p + 1), LAMBDA body :
    IF ~body.ok THEN body
    ELSE ParseOk(<<S("Unsafe", "", <<>>, <<>>, body.v, <<>>, "none",
                     current_span(ps, p))>>, body.p))

\* Parser::parse_expr_or_assign_stmt
parse_expr_or_assign_stmt(ps, p) ==
    Let(Parse("parse_expr", ps, p), LAMBDA expr :
    IF ~expr.ok THEN expr
    ELSE IF check(ps, expr.p, "=") THEN
        Let(Parse("parse_expr", ps, expr.p + 1), LAMBDA rhs :
        IF ~rhs.ok THEN rhs
        ELSE Expect(ps, rhs.p, ";", "expected ';'",
                ParseOk(<<S("Assign", "", <<>>, expr.v \o rhs.v, <<>>, <<>>, "none",
                            current_span(ps, p))>>, rhs.p + 1)))
    ELSE Expect(ps, expr.p, ";", "expected ';'",
            ParseOk(<<S("Expr", "", <<>>, expr.v, <<>>, <<>>, "none",
                        current_span(ps, p))>>, expr.p + 1)))

\* The statement loop of one arm of Parser::parse_switch_stmt: it runs to
\* the next 'case', 'default' or '}'.
parse_arm_stmts(ps, p, acc) ==
    IF check(ps, p, "case") \/ check(ps, p, "default") \/ check(ps, p, "}")
    THEN ParseOk(acc, p)
    ELSE Let(parse_stmt(ps, p), LAMBDA st :
         IF ~st.ok THEN st ELSE parse_arm_stmts(ps, st.p, acc \o st.v))

\* The arm loop of Parser::parse_switch_stmt: the cases so far, the
\* statements of the last default arm and whether there was one.
parse_switch_arms(ps, p, cases, default, hasDefault) ==
    IF check(ps, p, "}") \/ is_at_end(ps, p)
    THEN ParseOk(<<cases, default, hasDefault>>, p)
    ELSE IF check(ps, p, "case") THEN
        Let(parse_const_expr(ps, advance(ps, p)), LAMBDA value :
        IF ~value.ok THEN value
        ELSE Expect(ps, value.p, ":", "expected ':' after case value",
                Let(parse_arm_stmts(ps, value.p + 1, <<>>), LAMBDA stmts :
                IF ~stmts.ok THEN stmts
                ELSE parse_switch_arms(ps, stmts.p,
                        Append(cases, S("Case", "", <<>>, value.v, stmts.v, <<>>,
                                        "none", current_span(ps, p))),
                        default, hasDefault))))
    ELSE IF check(ps, p, "default") THEN
        Expect(ps, p + 1, ":", "expected ':' after 'default'",
            Let(parse_arm_stmts(ps, p + 2, <<>>), LAMBDA stmts :
            IF ~stmts.ok THEN stmts
            ELSE parse_switch_arms(ps, stmts.p, cases, stmts.v, TRUE)))
    ELSE error(ps, p, "expected 'case' or 'default'")

\* Parser::parse_switch_stmt: the scrutinee in e, the cases in body (each a
\* Case with its value in e and its statements in body), the statements
\* of the default arm in els, hasElse = "default" when there is one.
parse_switch_stmt(ps, p) ==
    Expect(ps, p + 1, "(", "expected '(' after 'switch'",
        Let(Parse("parse_expr", ps, p + 2), LAMBDA expr :
        IF ~expr.ok THEN expr
        ELSE Expect(ps, expr.p, ")", "expected ')'",
             Expect(ps, expr.p + 1, "{", "expected '{'",
                Let(parse_switch_arms(ps, expr.p + 2, <<>>, <<>>, FALSE), LAMBDA arms :
                IF ~arms.ok THEN arms
                ELSE Expect(ps, arms.p, "}", "expected '}'",
                        ParseOk(<<S("Switch", "", <<>>, expr.v, arms.v[1], arms.v[2],
                                    IF arms.v[3] THEN "default" ELSE "none",
                                    current_span(ps, p))>>, arms.p + 1)))))))

\* Parser::parse_stmt
parse_stmt(ps, p) ==
    Let(current(ps, p).t, LAMBDA t :
    CASE t = "let"    -> parse_let_stmt(ps, p)
      [] t = "if"     -> parse_if_stmt(ps, p)
      [] t = "while"  -> parse_while_stmt(ps, p)
      [] t = "for"    -> parse_for_stmt(ps, p)
      [] t = "switch" -> parse_switch_stmt(ps, p)
      [] t = "return" -> parse_return_stmt(ps, p)
      [] t = "break" ->
            Expect(ps, p + 1, ";", "expected ';' after 'break'",
                ParseOk(<<S("Break", "", <<>>, <<>>, <<>>, <<>>, "none",
                            current_span(ps, p))>>, p + 2))
      [] t = "continue" ->
            Expect(ps, p + 1, ";", "expected ';' after 'continue'",
                ParseOk(<<S("Continue", "", <<>>, <<>>, <<>>, <<>>, "none",
                            current_span(ps, p))>>, p + 2))
      [] t = "defer"   -> parse_defer_stmt(ps, p)
      [] t = "unsafe" -> parse_unsafe_block(ps, p)
      [] t = "discard" -> parse_discard_stmt(ps, p)
      [] t = "{" ->
            Let(Parse("parse_block", ps, p), LAMBDA block :
            IF ~block.ok THEN block
            ELSE ParseOk(<<S("Block", "", <<>>, <<>>, block.v, <<>>, "none",
                             current_span(ps, p))>>, block.p))
      [] OTHER -> parse_expr_or_assign_stmt(ps, p))

RECURSIVE parse_param_list(_, _, _), parse_struct_fields_decl(_, _, _),
          parse_enum_variants(_, _, _), parse_item(_, _), parse_items(_, _, _, _),
          parse_extern_items(_, _, _)

\* The loop of Parser::parse_param_list, entered before a parameter.
parse_param_list(ps, p, acc) ==
    IF ~check(ps, p, "Ident") THEN error(ps, p, "expected identifier")
    ELSE Expect(ps, p + 1, ":", "expected ':'",
        Let(Parse("parse_type", ps, p + 2), LAMBDA ty :
        IF ~ty.ok THEN ty
        ELSE Let(          Append(acc, Param(current(ps, p).s, ty.v[1],
                                             current_span(ps, p))), LAMBDA params :
             IF check(ps, ty.p, ",") THEN parse_param_list(ps, ty.p + 1, params)
             ELSE ParseOk(params, ty.p))))

\* Parser::parse_fn_decl
parse_fn_decl(ps, p, is_unsafe) ==
    Expect(ps, p, "fn", "expected 'fn'",
    IF ~check(ps, p + 1, "Ident") THEN error(ps, p + 1, "expected identifier")
    ELSE Expect(ps, p + 2, "(", "expected '('",
        Let(          IF check(ps, p + 3, ")") THEN ParseOk(<<>>, p + 3)
                      ELSE parse_param_list(ps, p + 3, <<>>), LAMBDA params :
        IF ~params.ok THEN params
        ELSE Expect(ps, params.p, ")", "expected ')'",
             Expect(ps, params.p + 1, "->", "expected '->'",
                Let(Parse("parse_type", ps, params.p + 2), LAMBDA return_type :
                IF ~return_type.ok THEN return_type
                ELSE Let(Parse("parse_block", ps, return_type.p), LAMBDA body :
                     IF ~body.ok THEN body
                     ELSE ParseOk(<<I("Fn", current(ps, p + 1).s, is_unsafe, params.v,
                                      return_type.v, body.v, <<>>, FALSE,
                                      current_span(ps, p),
                                      <<current_span(ps, return_type.p),
                                        current_span(ps, body.p - 1) + 1>>)>>,
                                  body.p))))))))

\* The field loop of Parser::parse_struct_decl.
parse_struct_fields_decl(ps, p, acc) ==
    IF check(ps, p, "}") \/ is_at_end(ps, p) THEN ParseOk(acc, p)
    ELSE IF ~check(ps, p, "Ident") THEN error(ps, p, "expected identifier")
    ELSE Expect(ps, p + 1, ":", "expected ':'",
        Let(Parse("parse_type", ps, p + 2), LAMBDA ty :
        IF ~ty.ok THEN ty
        ELSE Let(          Append(acc, Param(current(ps, p).s, ty.v[1],
                                             current_span(ps, p))), LAMBDA fields :
             IF check(ps, ty.p, ",") THEN parse_struct_fields_decl(ps, ty.p + 1, fields)
             ELSE ParseOk(fields, ty.p))))

\* Parser::parse_struct_decl
parse_struct_decl(ps, p) ==
    IF ~check(ps, p + 1, "Ident") THEN error(ps, p + 1, "expected identifier")
    ELSE Expect(ps, p + 2, "{", "expected '{'",
        Let(parse_struct_fields_decl(ps, p + 3, <<>>), LAMBDA fields :
        IF ~fields.ok THEN fields
        ELSE Expect(ps, fields.p, "}", "expected '}'",
                ParseOk(<<I("Struct", current(ps, p + 1).s, FALSE, fields.v, <<>>, <<>>,
                            <<>>, FALSE, current_span(ps, p), <<>>)>>, fields.p + 1))))

\* The variant loop of Parser::parse_enum_decl (variants with fields are not
\* modelled).
parse_enum_variants(ps, p, acc) ==
    IF check(ps, p, "}") \/ is_at_end(ps, p) THEN ParseOk(acc, p)
    ELSE IF ~check(ps, p, "Ident") THEN error(ps, p, "expected identifier")
    ELSE Let(          Append(acc, Param(current(ps, p).s, <<>>,
                                         current_span(ps, p))), LAMBDA variants :
         IF check(ps, p + 1, ",") THEN parse_enum_variants(ps, p + 2, variants)
         ELSE ParseOk(variants, p + 1))

\* Parser::parse_enum_decl: the variants are kept in params.
parse_enum_decl(ps, p) ==
    IF ~check(ps, p + 1, "Ident") THEN error(ps, p + 1, "expected identifier")
    ELSE Expect(ps, p + 2, "{", "expected '{'",
        Let(parse_enum_variants(ps, p + 3, <<>>), LAMBDA variants :
        IF ~variants.ok THEN variants
        ELSE Expect(ps, variants.p, "}", "expected '}'",
                ParseOk(<<I("Enum", current(ps, p + 1).s, FALSE, variants.v, <<>>,
                            <<>>, <<>>, FALSE, current_span(ps, p), <<>>)>>,
                        variants.p + 1))))

\* The item loops of Parser::parse_file (inMod = FALSE, runs to the end of the
\* tokens) and of Parser::parse_mod_decl (inMod = TRUE, runs to '}').
parse_items(ps, p, acc, inMod) ==
    IF is_at_end(ps, p) \/ (inMod /\ check(ps, p, "}")) THEN ParseOk(acc, p)
    ELSE Let(Parse("parse_item", ps, p), LAMBDA item :
         IF ~item.ok THEN item ELSE parse_items(ps, item.p, acc \o item.v, inMod))

\* Parser::parse_mod_decl
parse_mod_decl(ps, p) ==
    IF ~check(ps, p + 1, "Ident") THEN error(ps, p + 1, "expected identifier")
    ELSE IF check(ps, p + 2, "{") THEN
        Let(parse_items(ps, p + 3, <<>>, TRUE), LAMBDA items :
        IF ~items.ok THEN items
        ELSE Expect(ps, items.p, "}", "expected '}'",
                ParseOk(<<I("Mod", current(ps, p + 1).s, FALSE, <<>>, <<>>, <<>>,
                            items.v, TRUE, current_span(ps, p), <<>>)>>, items.p + 1)))
    ELSE Expect(ps, p + 2, ";", "expected ';' or '{'",
            ParseOk(<<I("Mod", current(ps, p + 1).s, FALSE, <<>>, <<>>, <<>>, <<>>,
                        FALSE, current_span(ps, p), <<>>)>>, p + 3))

\* Parser::parse_fn_proto: the prototype is an item of the kind Proto.
parse_fn_proto(ps, p, is_unsafe) ==
    Expect(ps, p, "fn", "expected 'fn'",
    IF ~check(ps, p + 1, "Ident") THEN error(ps, p + 1, "expected identifier")
    ELSE Expect(ps, p + 2, "(", "expected '('",
        Let(          IF check(ps, p + 3, ")") THEN ParseOk(<<>>, p + 3)
                      ELSE parse_param_list(ps, p + 3, <<>>), LAMBDA params :
        IF ~params.ok THEN params
        ELSE Expect(ps, params.p, ")", "expected ')'",
             Expect(ps, params.p + 1, "->", "expected '->'",
                Let(Parse("parse_type", ps, params.p + 2), LAMBDA return_type :
                IF ~return_type.ok THEN return_type
                ELSE Expect(ps, return_type.p, ";", "expected ';'",
                        ParseOk(<<I("Proto", current(ps, p + 1).s, is_unsafe, params.v,
                                    return_type.v, <<>>, <<>>, FALSE,
                                    current_span(ps, p), <<>>)>>,
                                return_type.p + 1))))))))

\* The item loop of Parser::parse_extern_block (@repr, struct, enum and
\* opaque items are not modelled).
parse_extern_items(ps, p, acc) ==
    IF check(ps, p, "}") \/ is_at_end(ps, p) THEN ParseOk(acc, p)
    ELSE Let(      CASE check(ps, p, "fn") -> parse_fn_proto(ps, p, FALSE)
                     [] check(ps, p, "unsafe") -> parse_fn_proto(ps, p + 1, TRUE)
                     [] OTHER -> error(ps, p, "expected extern item"), LAMBDA item :
         IF ~item.ok THEN item ELSE parse_extern_items(ps, item.p, acc \o item.v))

\* Parser::parse_extern_block: the prototypes are kept in items.
parse_extern_block(ps, p) ==
    IF ~check(ps, p + 1, "StringLit")
    THEN error(ps, p + 1, "expected ABI string (e.g., \"C\")")
    ELSE Expect(ps, p + 2, "{", "expected '{'",
        Let(parse_extern_items(ps, p + 3, <<>>), LAMBDA items :
        IF ~items.ok THEN items
        ELSE Expect(ps, items.p, "}", "expected '}'",
                ParseOk(<<I("Extern", "", FALSE, <<>>, <<>>, <<>>, items.v, FALSE,
                            current_span(ps, p), <<>>)>>, items.p + 1))))

\* Parser::parse_item (attributes, pub, const, opaque and use are not
\* modelled)
parse_item(ps, p) ==
    Let(current(ps, p).t, LAMBDA t :
    CASE t = "fn" -> parse_fn_decl(ps, p, FALSE)
      [] t = "unsafe" ->
            IF check(ps, p + 1, "fn") THEN parse_fn_decl(ps, p + 1, TRUE)
            ELSE error(ps, p + 1, "expected 'fn' after 'unsafe'")
      [] t = "struct" -> parse_struct_decl(ps, p)
      [] t = "enum" -> parse_enum_decl(ps, p)
      [] t = "mod" -> parse_mod_decl(ps, p)
      [] t = "extern" -> parse_extern_block(ps, p)
      [] OTHER -> error(ps, p, "expected top-level item"))

\* Parser::parse_file: the items of the file, or the first error.
parse_file(ps) == parse_items(ps, 1, <<>>, FALSE)

\* A call of one of the mutually recursive parse functions: rule names the
\* function called.
Parse(rule, ps, p) ==
    CASE rule = "parse_expr" -> parse_expr(ps, p)
      [] rule = "parse_type" -> parse_type(ps, p)
      [] rule = "parse_block" -> parse_block(ps, p)
      [] OTHER -> parse_item(ps, p)

\* driver::parse: Lexer::new, strip_comments, Parser::parse_file.
parse(source) ==
    parse_file(ParserNew(strip_comments(Lex(source)), source))

(***************************************************************************)
(* C syntax trees (lower/c_ast.rs)                                         *)
(***************************************************************************)

\* CType: kind k, name s, element types kids, array size n.
CT(k, s, kids, n) == [k |-> k, s |-> s, kids |-> kids, n |-> n]

\* CExpr: kind k, name or operator s, literal value n, children kids, field
\* names fs (compound literals).  A call holds the callee in kids[1].
CE(k, s, n, kids, fs) == [k |-> k, s |-> s, n |-> n, kids |-> kids, fs |-> fs]

\* CStmt: kind k, declared name s, declared type ty, expressions e, blocks
\* body (then) and els (else_), whether else_ is present.
CS(k, s, ty, e, body, els, hasElse) ==
    [k |-> k, s |-> s, ty |-> ty, e |-> e, body |-> body, els |-> els,
     hasElse |-> hasElse]

CIdent(name) == CE("Ident", name, 0, <<>>, <<>>)
CIntLit(n) == CE("IntLit", "", n, <<>>, <<>>)
CBoolLit(b) == CE("BoolLit", IF b THEN "true" ELSE "false", IF b THEN 1 ELSE 0, <<>>, <<>>)
CBinary(op, lhs, rhs) == CE("Binary", op, 0, <<lhs, rhs>>, <<>>)
CCall(func, args) == CE("Call", "", 0, <<func>> \o args, <<>>)
CField(base, field) == CE("Field", field, 0, <<base>>, <<>>)
CVarDecl(name, ty, init) == CS("VarDecl", name, <<ty>>, init, <<>>, <<>>, FALSE)
CAssign(lhs, rhs) == CS("Assign", "", <<>>, <<lhs, rhs>>, <<>>, <<>>, FALSE)
CIf(cond, then, els, hasElse) == CS("If", "", <<>>, <<cond>>, then, els, hasElse)
CExprStmt(e) == CS("Expr", "", <<>>, <<e>>, <<>>, <<>>, FALSE)
\* CExpr::Cast: the target CType is held in fs.
CCast(ty, expr) == CE("Cast", "", 0, <<expr>>, <<ty>>)

(***************************************************************************)
(* Runtime checks (lower/checks.rs)                                        *)
(***************************************************************************)

\* The statement  fc_trap();
TrapCall == CExprStmt(CCall(CIdent("fc_trap"), <<>>))

\* if (index >= len) { fc_trap(); }
bounds_check(index, len) == CIf(CBinary("Ge", index, len), <<TrapCall>>, <<>>, FALSE)

\* The declaration of result_var and  if (builtin(lhs, rhs, &result_var)) { fc_trap(); }
overflow_check_with_builtin(builtin, lhs, rhs, result_var, ty) ==
    <<CVarDecl(result_var, ty, <<>>),
      CIf(CCall(CIdent(builtin),
                <<lhs, rhs, CE("AddrOf", "", 0, <<CIdent(result_var)>>, <<>>)>>),
          <<TrapCall>>, <<>>, FALSE)>>

overflow_check_add(lhs, rhs, result_var, ty) ==
    overflow_check_with_builtin("__builtin_add_overflow", lhs, rhs, result_var, ty)

overflow_check_sub(lhs, rhs, result_var, ty) ==
    overflow_check_with_builtin("__builtin_sub_overflow", lhs, rhs, result_var, ty)

overflow_check_mul(lhs, rhs, result_var, ty) ==
    overflow_check_with_builtin("__builtin_mul_overflow", lhs, rhs, result_var, ty)

\* if (divisor == 0) { fc_trap(); }
div_zero_check(divisor) ==
    CIf(CBinary("Eq", divisor, CIntLit(0)), <<TrapCall>>, <<>>, FALSE)

(***************************************************************************)
(* Lowerer (lower/mod.rs).  The Lower object is a record lw with the       *)
(* fields temp_counter, in_unsafe, var_types and panicked (a panic! was    *)
(* reached, the process has aborted).                                      *)
(***************************************************************************)

RECURSIVE has_side_effects(_), infer_expr_type(_, _), eval_const_size(_),
          lower_type(_)

\* Lower::has_side_effects
has_side_effects(expr) ==
    CASE expr.k = "Call" -> TRUE
      [] expr.k = "Binary" ->
            has_side_effects(expr.kids[1]) \/ has_side_effects(expr.kids[2])
      [] expr.k \in {"Unary", "Paren", "Field", "Addr", "Deref", "Cast"} ->
            has_side_effects(expr.kids[1])
      [] expr.k = "At" ->
            has_side_effects(expr.kids[1]) \/ has_side_effects(expr.kids[2])
      [] OTHER -> FALSE

CVoid == CT("Void", "", <<>>, 0)

\* Lower::infer_expr_type
infer_expr_type(lw, expr) ==
    CASE expr.k = "IntLit" -> CT("Int32", "", <<>>, 0)
      [] expr.k = "BoolLit" -> CT("Bool", "", <<>>, 0)
      [] expr.k = "Cast" -> lower_type(expr.ty[1])
      [] expr.k \in {"Paren", "Unary"} -> infer_expr_type(lw, expr.kids[1])
      [] expr.k = "Binary" ->
            IF expr.s \in {"Eq", "Ne", "Lt", "Le", "Gt", "Ge", "And", "Or"}
            THEN CT("Bool", "", <<>>, 0)
            ELSE infer_expr_type(lw, expr.kids[1])
      [] expr.k = "Ident" ->
            IF expr.s \in DOMAIN lw.var_types THEN lw.var_types[expr.s] ELSE CVoid
      [] expr.k = "Call" ->
            IF expr.kids[1].k = "Ident" /\ expr.kids[1].s \in {"get_some", "get_none"}
            THEN CT("Opt", "", <<CT("Int32", "", <<>>, 0)>>, 0)
            ELSE CVoid
      [] OTHER -> CVoid

\* Lower::eval_const_size: the size, or ok = FALSE where the code panics
\* (usize arithmetic is exact for the sizes of the model).
eval_const_size(expr) ==
    CASE expr.k = "IntLit" ->
            IF expr.n < 0 THEN [ok |-> FALSE, v |-> 0] ELSE [ok |-> TRUE, v |-> expr.n]
      [] expr.k = "Paren" -> eval_const_size(expr.kids[1])
      [] expr.k = "Binary" ->
            Let(eval_const_size(expr.kids[1]), LAMBDA l :
                Let(eval_const_size(expr.kids[2]), LAMBDA r :
            IF ~l.ok THEN l
            ELSE IF ~r.ok THEN r
            ELSE CASE expr.s = "Add" -> [ok |-> TRUE, v |-> l.v + r.v]
                   [] expr.s = "Sub" ->
                        [ok |-> TRUE, v |-> IF l.v >= r.v THEN l.v - r.v ELSE 0]
                   [] expr.s = "Mul" -> [ok |-> TRUE, v |-> l.v * r.v]
                   [] expr.s = "Div" ->
                        IF r.v = 0 THEN [ok |-> FALSE, v |-> 0]
                        ELSE [ok |-> TRUE, v |-> l.v \div r.v]
                   [] OTHER -> [ok |-> FALSE, v |-> 0]))
      [] expr.k = "Unary" ->
            Let(eval_const_size(expr.kids[1]), LAMBDA v :
            IF ~v.ok THEN v
            ELSE IF expr.s = "Neg" THEN [ok |-> FALSE, v |-> 0] ELSE v)
      [] OTHER -> [ok |-> FALSE, v |-> 0]

\* The CType that stands for a panic in Lower::lower_type.
CPanic == CT("Panic", "", <<>>, 0)

\* CType of a PrimitiveType.
CPrimitiveOf ==
    [t \in {"I32", "I64", "U32", "F64", "Bool"} |->
        CASE t = "I32" -> "Int32" [] t = "I64" -> "Int64" [] t = "U32" -> "UInt32"
          [] t = "F64" -> "Double"
          [] OTHER -> "Bool"]

\* Lower::lower_type; CPanic when eval_const_size panics.
lower_type(ty) ==
    CASE ty.k = "Primitive" -> CT(CPrimitiveOf[ty.s], "", <<>>, 0)
      [] ty.k = "Void" -> CVoid
      [] ty.k = "Named" -> CT("Named", ty.s, <<>>, 0)
      [] ty.k \in {"Ref", "Mref", "Raw", "Rawm", "Slice", "Opt"} ->
            Let(lower_type(ty.kids[1]), LAMBDA inner :
            IF inner.k = "Panic" THEN CPanic
            ELSE CT(CASE ty.k \in {"Ref", "Raw"} -> "ConstPtr"
                      [] ty.k \in {"Mref", "Rawm"} -> "Ptr"
                      [] OTHER -> ty.k, "", <<inner>>, 0))
      [] ty.k = "Res" ->
            Let(lower_type(ty.kids[1]), LAMBDA ok_ty :
            Let(lower_type(ty.kids[2]), LAMBDA err_ty :
            IF ok_ty.k = "Panic" \/ err_ty.k = "Panic" THEN CPanic
            ELSE CT("Res", "", <<ok_ty, err_ty>>, 0)))
      [] ty.k = "Arr" ->
            Let(eval_const_size(ty.sz[1]), LAMBDA size :
                Let(lower_type(ty.kids[1]), LAMBDA elem :
            IF ~size.ok \/ elem.k = "Panic" THEN CPanic
            ELSE CT("Array", "", <<elem>>, size.v)))
      [] OTHER -> CVoid

\* Lower::is_signed_integer
is_signed_integer(ty) == ty.k \in {"Int8", "Int16", "Int32", "Int64", "PtrDiffT"}

\* The name made by Lower::fresh_temp from the counter.
fresh_temp(temp_counter) == "__tmp" \o ToString(temp_counter)

\* Lower::lower_binop
lower_binop(op) == IF op = "Rem" THEN "Mod" ELSE op

\* The result of lowering an expression: the C expression e, the statements
\* pre hoisted before it, the Lower object lw.
LowerRes(e, pre, lw) == [e |-> e, pre |-> pre, lw |-> lw]

Bump(lw) == [lw EXCEPT !.temp_counter = @ + 1]

RECURSIVE lower_expr(_, _, _), lower_call_args(_, _, _, _), lower_fields(_, _, _, _)

\* The argument loop of the Call case of Lower::lower_expr; e is the
\* sequence of lowered arguments.
lower_call_args(lw, args, pre, acc) ==
    IF args = <<>> THEN LowerRes(acc, pre, lw)
    ELSE Let(lower_expr(lw, Head(args), pre), LAMBDA c_arg :
         IF has_side_effects(Head(args)) THEN
             Let(fresh_temp(c_arg.lw.temp_counter), LAMBDA tmp :
             lower_call_args(Bump(c_arg.lw), Tail(args),
                 Append(c_arg.pre, CVarDecl(tmp, CT("Int32", "", <<>>, 0), <<c_arg.e>>)),
                 Append(acc, CIdent(tmp))))
         ELSE lower_call_args(c_arg.lw, Tail(args), c_arg.pre, Append(acc, c_arg.e)))

\* The field loop of the StructLit case of Lower::lower_expr.
lower_fields(lw, fields, pre, acc) ==
    IF fields = <<>> THEN LowerRes(acc, pre, lw)
    ELSE Let(lower_expr(lw, Head(fields), pre), LAMBDA c_value :
         lower_fields(c_value.lw, Tail(fields), c_value.pre, Append(acc, c_value.e)))

\* Lower::lower_expr
lower_expr(lw, expr, pre_stmts) ==
    CASE expr.k = "IntLit" -> LowerRes(CIntLit(expr.n), pre_stmts, lw)
      [] expr.k = "BoolLit" -> LowerRes(CBoolLit(expr.n = 1), pre_stmts, lw)
      [] expr.k = "Ident" -> LowerRes(CIdent(expr.s), pre_stmts, lw)
      [] expr.k = "Binary" /\ expr.s \in {"And", "Or"} ->
            Let(fresh_temp(lw.temp_counter), LAMBDA tmp :
                Let(lower_expr(Bump(lw), expr.kids[1], pre_stmts), LAMBDA c_lhs :
                Let(lower_expr(c_lhs.lw, expr.kids[2], c_lhs.pre), LAMBDA c_rhs :
                Let(CVarDecl(tmp, CT("Bool", "", <<>>, 0), <<>>), LAMBDA decl :
                Let(     IF expr.s = "And"
                         THEN CIf(c_lhs.e, <<CAssign(CIdent(tmp), c_rhs.e)>>,
                                  <<CAssign(CIdent(tmp), CBoolLit(FALSE))>>, TRUE)
                         ELSE CIf(c_lhs.e, <<CAssign(CIdent(tmp), CBoolLit(TRUE))>>,
                                  <<CAssign(CIdent(tmp), c_rhs.e)>>, TRUE), LAMBDA sel :
            LowerRes(CIdent(tmp), c_rhs.pre \o <<decl, sel>>, c_rhs.lw))))))
      [] expr.k = "Binary" /\ expr.s \in {"Div", "Rem"} ->
            Let(lower_expr(lw, expr.kids[1], pre_stmts), LAMBDA c_lhs :
                Let(lower_expr(c_lhs.lw, expr.kids[2], c_lhs.pre), LAMBDA c_rhs :
            LowerRes(CBinary(lower_binop(expr.s), c_lhs.e, c_rhs.e),
                     IF ~lw.in_unsafe THEN Append(c_rhs.pre, div_zero_check(c_rhs.e))
                     ELSE c_rhs.pre,
                     c_rhs.lw)))
      [] expr.k = "Binary" /\ expr.s \in {"Add", "Sub", "Mul"} ->
            Let(infer_expr_type(lw, expr.kids[1]), LAMBDA expr_ty :
                Let(lower_expr(lw, expr.kids[1], pre_stmts), LAMBDA c_lhs :
                Let(lower_expr(c_lhs.lw, expr.kids[2], c_lhs.pre), LAMBDA c_rhs :
            IF ~lw.in_unsafe /\ is_signed_integer(expr_ty) THEN
                Let(fresh_temp(c_rhs.lw.temp_counter), LAMBDA tmp :
                    Let(   CASE expr.s = "Add" ->
                                    overflow_check_add(c_lhs.e, c_rhs.e, tmp, expr_ty)
                             [] expr.s = "Sub" ->
                                    overflow_check_sub(c_lhs.e, c_rhs.e, tmp, expr_ty)
                             [] OTHER ->
                                    overflow_check_mul(c_lhs.e, c_rhs.e, tmp, expr_ty), LAMBDA chk :
                LowerRes(CIdent(tmp), c_rhs.pre \o chk, Bump(c_rhs.lw))))
            ELSE LowerRes(CBinary(lower_binop(expr.s), c_lhs.e, c_rhs.e),
                          c_rhs.pre, c_rhs.lw))))
      [] expr.k = "Binary" ->
            Let(lower_expr(lw, expr.kids[1], pre_stmts), LAMBDA c_lhs :
                Let(lower_expr(c_lhs.lw, expr.kids[2], c_lhs.pre), LAMBDA c_rhs :
            LowerRes(CBinary(lower_binop(expr.s), c_lhs.e, c_rhs.e), c_rhs.pre, c_rhs.lw)))
      [] expr.k = "Unary" ->
            Let(lower_expr(lw, expr.kids[1], pre_stmts), LAMBDA c_operand :
            LowerRes(CE("Unary", expr.s, 0, <<c_operand.e>>, <<>>),
                     c_operand.pre, c_operand.lw))
      [] expr.k = "Paren" ->
            Let(lower_expr(lw, expr.kids[1], pre_stmts), LAMBDA c_inner :
            LowerRes(CE("Paren", "", 0, <<c_inner.e>>, <<>>), c_inner.pre, c_inner.lw))
      [] expr.k = "Call" ->
            Let(lower_expr(lw, expr.kids[1], pre_stmts), LAMBDA c_callee :
                Let(        lower_call_args(c_callee.lw, Tail(expr.kids),
                                            c_callee.pre, <<>>), LAMBDA c_args :
            LowerRes(CCall(c_callee.e, c_args.e), c_args.pre, c_args.lw)))
      [] expr.k = "Field" ->
            Let(lower_expr(lw, expr.kids[1], pre_stmts), LAMBDA c_base :
            LowerRes(CField(c_base.e, expr.s), c_base.pre, c_base.lw))
      [] expr.k = "Addr" ->
            Let(lower_expr(lw, expr.kids[1], pre_stmts), LAMBDA c_operand :
            LowerRes(CE("AddrOf", "", 0, <<c_operand.e>>, <<>>),
                     c_operand.pre, c_operand.lw))
      [] expr.k = "Deref" ->
            Let(lower_expr(lw, expr.kids[1], pre_stmts), LAMBDA c_operand :
            LowerRes(CE("Deref", "", 0, <<c_operand.e>>, <<>>),
                     c_operand.pre, c_operand.lw))
      [] expr.k = "Cast" ->
            Let(lower_expr(lw, expr.kids[1], pre_stmts), LAMBDA c_expr :
            LowerRes(CCast(lower_type(expr.ty[1]), c_expr.e), c_expr.pre, c_expr.lw))
      [] expr.k = "At" ->
            Let(infer_expr_type(lw, expr.kids[1]), LAMBDA base_ty :
                Let(lower_expr(lw, expr.kids[1], pre_stmts), LAMBDA c_base :
                Let(lower_expr(c_base.lw, expr.kids[2], c_base.pre), LAMBDA c_index :
            IF base_ty.k = "Slice" THEN
                LowerRes(CE("Index", "", 0, <<CField(c_base.e, "data"), c_index.e>>, <<>>),
                         IF ~lw.in_unsafe
                         THEN Append(c_index.pre,
                                     bounds_check(c_index.e, CField(c_base.e, "len")))
                         ELSE c_index.pre,
                         c_index.lw)
            ELSE LowerRes(CE("Index", "", 0, <<c_base.e, c_index.e>>, <<>>),
                          c_index.pre, c_index.lw))))
      [] expr.k = "StructLit" ->
            Let(lower_fields(lw, expr.kids, pre_stmts, <<>>), LAMBDA c_fields :
            LowerRes(CE("Compound", expr.s, 0, c_fields.e, expr.fs),
                     c_fields.pre, c_fields.lw))
      [] OTHER -> LowerRes(CIdent("/* TODO */"), pre_stmts, lw)

\* The result of lowering statements: the C statements, the Lower object.
StmtRes(stmts, lw) == [stmts |-> stmts, lw |-> lw]

\* HashMap::insert on var_types
VarInsert(var_types, name, ty) ==
    [n \in DOMAIN var_types \cup {name} |-> IF n = name THEN ty ELSE var_types[n]]

RECURSIVE lower_const_expr(_)

\* Lower::lower_const_expr
lower_const_expr(expr) ==
    CASE expr.k = "IntLit" -> CIntLit(expr.n)
      [] expr.k = "BoolLit" -> CBoolLit(expr.n = 1)
      [] expr.k = "Ident" -> CIdent(expr.s)
      [] expr.k = "Binary" ->
            CBinary(lower_binop(expr.s), lower_const_expr(expr.kids[1]),
                    lower_const_expr(expr.kids[2]))
      [] expr.k = "Unary" -> CE("Unary", expr.s, 0, <<lower_const_expr(expr.kids[1])>>, <<>>)
      [] OTHER -> CE("Paren", "", 0, <<lower_const_expr(expr.kids[1])>>, <<>>)

\* CStmt::Break
CBreak == CS("Break", "", <<>>, <<>>, <<>>, <<>>, FALSE)

RECURSIVE lower_stmt(_, _), lower_stmts(_, _, _), lower_cases(_, _, _)

\* The case loop of the Switch arm of Lower::lower_stmt: each case is its
\* lowered value with its lowered statements and a break.
lower_cases(lw, cases, acc) ==
    IF cases = <<>> \/ lw.panicked THEN StmtRes(acc, lw)
    ELSE Let(lower_stmts(lw, Head(cases).body, <<>>), LAMBDA c :
         lower_cases(c.lw, Tail(cases),
                     Append(acc, CS("Case", "", <<>>, <<lower_const_expr(Head(cases).e[1])>>,
                                    Append(c.stmts, CBreak), <<>>, FALSE))))

\* Lower::lower_block: the loop over the statements of a block.
lower_stmts(lw, stmts, acc) ==
    IF stmts = <<>> \/ lw.panicked THEN StmtRes(acc, lw)
    ELSE Let(lower_stmt(lw, Head(stmts)), LAMBDA c :
         lower_stmts(c.lw, Tail(stmts), acc \o c.stmts))

lower_block(lw, block) == lower_stmts(lw, block, <<>>)

\* Lower::lower_stmt
lower_stmt(lw, stmt) ==
    CASE stmt.k = "Let" ->
            Let(lower_type(stmt.ty[1]), LAMBDA c_ty :
                Let([lw EXCEPT !.var_types = VarInsert(@, stmt.s, c_ty)], LAMBDA lw1 :
                Let(lower_expr(lw1, stmt.e[1], <<>>), LAMBDA c_init :
            IF c_ty.k = "Panic" THEN StmtRes(<<>>, [lw EXCEPT !.panicked = TRUE])
            ELSE StmtRes(Append(c_init.pre, CVarDecl(stmt.s, c_ty, <<c_init.e>>)),
                         c_init.lw))))
      [] stmt.k = "Assign" ->
            Let(lower_expr(lw, stmt.e[1], <<>>), LAMBDA c_lhs :
                Let(lower_expr(c_lhs.lw, stmt.e[2], c_lhs.pre), LAMBDA c_rhs :
            StmtRes(Append(c_rhs.pre, CAssign(c_lhs.e, c_rhs.e)), c_rhs.lw)))
      [] stmt.k = "Return" ->
            IF stmt.e = <<>>
            THEN StmtRes(<<CS("Return", "", <<>>, <<>>, <<>>, <<>>, FALSE)>>, lw)
            ELSE Let(lower_expr(lw, stmt.e[1], <<>>), LAMBDA c_value :
                 StmtRes(Append(c_value.pre,
                                CS("Return", "", <<>>, <<c_value.e>>, <<>>, <<>>, FALSE)),
                         c_value.lw))
      [] stmt.k = "If" ->
            Let(lower_expr(lw, stmt.e[1], <<>>), LAMBDA c_cond :
                Let(lower_block(c_cond.lw, stmt.body), LAMBDA c_then :
                Let(      CASE stmt.hasElse = "else" -> lower_block(c_then.lw, stmt.els)
                            [] stmt.hasElse = "elseif" -> lower_stmt(c_then.lw, stmt.els[1])
                            [] OTHER -> StmtRes(<<>>, c_then.lw), LAMBDA c_else :
            StmtRes(Append(c_cond.pre,
                           CIf(c_cond.e, c_then.stmts, c_else.stmts,
                               stmt.hasElse # "none")),
                    c_else.lw))))
      [] stmt.k = "While" ->
            Let(lower_expr(lw, stmt.e[1], <<>>), LAMBDA c_cond :
                Let(lower_block(c_cond.lw, stmt.body), LAMBDA c_body :
            StmtRes(Append(c_cond.pre,
                           CS("While", "", <<>>, <<c_cond.e>>, c_body.stmts, <<>>, FALSE)),
                    c_body.lw)))
      [] stmt.k = "Expr" ->
            Let(lower_expr(lw, stmt.e[1], <<>>), LAMBDA c_expr :
            StmtRes(Append(c_expr.pre, CExprStmt(c_expr.e)), c_expr.lw))
      [] stmt.k = "Block" ->
            Let(lower_block(lw, stmt.body), LAMBDA c_body :
            StmtRes(<<CS("Block", "", <<>>, <<>>, c_body.stmts, <<>>, FALSE)>>, c_body.lw))
      [] stmt.k = "Unsafe" ->
            Let(lw.in_unsafe, LAMBDA was_unsafe :
                Let(lower_block([lw EXCEPT !.in_unsafe = TRUE], stmt.body), LAMBDA c_body :
            StmtRes(c_body.stmts, [c_body.lw EXCEPT !.in_unsafe = was_unsafe])))
      [] stmt.k = "Switch" ->
            Let(lower_expr(lw, stmt.e[1], <<>>), LAMBDA c_expr :
                Let(lower_cases(c_expr.lw, stmt.body, <<>>), LAMBDA c_cases :
                Let(      IF stmt.hasElse = "default"
                          THEN lower_stmts(c_cases.lw, stmt.els, <<>>)
                          ELSE StmtRes(<<>>, c_cases.lw), LAMBDA d :
            StmtRes(Append(c_expr.pre,
                           CS("Switch", "", <<>>, <<c_expr.e>>, c_cases.stmts,
                              IF stmt.hasElse = "default" THEN Append(d.stmts, CBreak)
                              ELSE <<>>,
                              stmt.hasElse = "default")),
                    d.lw))))
      [] stmt.k = "Discard" ->
            Let(lower_expr(lw, stmt.e[1], <<>>), LAMBDA c_expr :
            StmtRes(Append(c_expr.pre, CExprStmt(CCast(CT("Void", "", <<>>, 0), c_expr.e))),
                    c_expr.lw))
      \* for, break, continue and defer: `_ => vec![]`
      [] OTHER -> StmtRes(<<>>, lw)

\* CParam and CField: a name and a CType.
CParam(name, ty) == [name |-> name, ty |-> ty]

\* CFnDef
CFnDef(name, params, return_type, body) ==
    [name |-> name, params |-> params, return_type |-> return_type, body |-> body]

\* The types of params (or struct fields) lowered in order.
LowerParams(params) == [i \in 1..Len(params) |-> CParam(params[i].name, lower_type(params[i].ty))]

\* Whether lowering one of the types panicked.
AnyPanic(cparams) == \E i \in 1..Len(cparams) : cparams[i].ty.k = "Panic"

RECURSIVE RegisterParams(_, _)
\* The var_types after inserting the parameters in order.
RegisterParams(var_types, cparams) ==
    IF cparams = <<>> THEN var_types
    ELSE RegisterParams(VarInsert(var_types, Head(cparams).name, Head(cparams).ty),
                        Tail(cparams))

\* Lower::lower_fn: var_types is cleared and holds the parameters; the flag
\* in_unsafe is left as it is.
lower_fn(lw, fn_decl) ==
    Let(LowerParams(fn_decl.params), LAMBDA params :
        Let([lw EXCEPT !.var_types = RegisterParams(<<>>, params)], LAMBDA lw1 :
        Let(lower_block(lw1, fn_decl.body), LAMBDA body :
        Let(lower_type(fn_decl.ret[1]), LAMBDA ret :
    IF AnyPanic(params) THEN [def |-> <<>>, lw |-> [lw EXCEPT !.panicked = TRUE]]
    ELSE IF body.lw.panicked \/ ret.k = "Panic"
    THEN [def |-> <<>>, lw |-> [body.lw EXCEPT !.panicked = TRUE]]
    ELSE [def |-> <<CFnDef(fn_decl.name, params, ret, body.stmts)>>, lw |-> body.lw]))))

\* Lower::lower_struct
lower_struct(lw, struct_decl) ==
    Let(LowerParams(struct_decl.params), LAMBDA fields :
    IF AnyPanic(fields) THEN [def |-> <<>>, lw |-> [lw EXCEPT !.panicked = TRUE]]
    ELSE [def |-> <<[name |-> struct_decl.name, fields |-> fields]>>, lw |-> lw])

\* Lower::lower_enum for an enum whose variants have no fields: CDecl::Enum
\* with the constants Enum_Variant.
lower_enum(enum_decl) ==
    [name |-> enum_decl.name,
     variants |-> [i \in 1..Len(enum_decl.params) |->
                      enum_decl.name \o "_" \o enum_decl.params[i].name]]

\* CFile: the function definitions and the type definitions.
CFile(fn_defs, type_defs) == [fn_defs |-> fn_defs, type_defs |-> type_defs]

RECURSIVE lower_items(_, _, _)
\* Lower::lower_items: the loop over the items, modules lowered recursively.
lower_items(lw, items, c_file) ==
    IF items = <<>> \/ lw.panicked THEN [c_file |-> c_file, lw |-> lw]
    ELSE Let(Head(items), LAMBDA item :
         CASE item.k = "Fn" ->
                Let(lower_fn(lw, item), LAMBDA f :
                lower_items(f.lw, Tail(items),
                            [c_file EXCEPT !.fn_defs = @ \o f.def]))
           [] item.k = "Struct" ->
                Let(lower_struct(lw, item), LAMBDA d :
                lower_items(d.lw, Tail(items),
                            [c_file EXCEPT !.type_defs = @ \o d.def]))
           [] item.k = "Enum" ->
                lower_items(lw, Tail(items),
                            [c_file EXCEPT !.type_defs = Append(@, lower_enum(item))])
           [] item.k = "Mod" /\ item.hasBody ->
                Let(lower_items(lw, item.items, c_file), LAMBDA m :
                lower_items(m.lw, Tail(items), m.c_file))
           [] OTHER -> lower_items(lw, Tail(items), c_file))

\* Lower::new
LowerNew ==
    [temp_counter |-> 0, in_unsafe |-> FALSE, opt_types |-> {}, res_types |-> {},
     slice_types |-> {}, var_types |-> <<>>, panicked |-> FALSE]

(***************************************************************************)
(* Symbol table (resolve/scope.rs)                                         *)
(***************************************************************************)

Symbol(name, kind, is_unsafe, ty, sp) ==
    [name |-> name, kind |-> kind, is_unsafe |-> is_unsafe, ty |-> ty, sp |-> sp]

\* fn_type: the parameter types followed by the return type.
fn_type(params, ret, is_unsafe) ==
    T("Fn", IF is_unsafe THEN "unsafe" ELSE "", params \o <<ret>>, <<>>)

\* SymbolTable::new: the global scope (parent 0 stands for None).
SymbolTableNew == [scopes |-> <<[symbols |-> <<>>, parent |-> 0]>>, current |-> 1]

\* SymbolTable::enter_scope
enter_scope(st) ==
    [scopes |-> Append(st.scopes, [symbols |-> <<>>, parent |-> st.current]),
     current |-> Len(st.scopes) + 1]

\* A scope that is never left.
stay_in_scope(st) == st

\* SymbolTable::exit_scope
exit_scope(st) ==
    IF st.scopes[st.current].parent # 0
    THEN [st EXCEPT !.current = st.scopes[st.current].parent] ELSE st

\* Scope::lookup_local: the symbol of that name, if any.
lookup_local(scope, name) == SelectSeq(scope.symbols, LAMBDA sym : sym.name = name)

\* SymbolTable::define with Scope::define: ok is FALSE when the name exists in
\* the current scope.
define(st, symbol) ==
    IF lookup_local(st.scopes[st.current], symbol.name) # <<>>
    THEN [ok |-> FALSE, st |-> st]
    ELSE [ok |-> TRUE,
          st |-> [st EXCEPT !.scopes[st.current].symbols = Append(@, symbol)]]

RECURSIVE lookup_from(_, _, _), all_names_from(_, _, _)

lookup_from(st, idx, name) ==
    IF idx = 0 THEN <<>>
    ELSE IF lookup_local(st.scopes[idx], name) # <<>>
    THEN lookup_local(st.scopes[idx], name)
    ELSE lookup_from(st, st.scopes[idx].parent, name)

\* SymbolTable::lookup: the symbol found walking up from the current scope.
lookup(st, name) == lookup_from(st, st.current, name)

RECURSIVE AddNames(_, _)
AddNames(names, symbols) ==
    IF symbols = <<>> THEN names
    ELSE AddNames(IF \E i \in 1..Len(names) : names[i] = Head(symbols).name
                  THEN names ELSE Append(names, Head(symbols).name),
                  Tail(symbols))

all_names_from(st, idx, names) ==
    IF idx = 0 THEN names
    ELSE all_names_from(st, st.scopes[idx].parent, AddNames(names, st.scopes[idx].symbols))

\* SymbolTable::all_names
all_names(st) == all_names_from(st, st.current, <<>>)

(***************************************************************************)
(* Resolver (resolve/mod.rs).  The Resolver object is a record rs with the *)
(* fields symbols, errors, source and panicked.                            *)
(***************************************************************************)

Min(a, b) == IF a < b THEN a ELSE b

RECURSIVE ed_cells(_, _, _, _, _, _, _), ed_rows(_, _, _, _, _, _)

\* The inner loop of Resolver::edit_distance over j for row i (both counted
\* from 0): ok is FALSE when a_chars[i] or b_chars[j] is out of bounds.
ed_cells(a_chars, b_chars, i, j, prev_row, curr_row, b_len) ==
    IF j = b_len THEN [ok |-> TRUE, row |-> curr_row]
    ELSE IF i + 1 > Len(a_chars) \/ j + 1 > Len(b_chars) THEN [ok |-> FALSE, row |-> <<>>]
    ELSE Let(IF a_chars[i + 1] = b_chars[j + 1] THEN 0 ELSE 1, LAMBDA cost :
         ed_cells(a_chars, b_chars, i, j + 1, prev_row,
                  Append(curr_row,
                         Min(Min(prev_row[j + 2] + 1, curr_row[j + 1] + 1),
                             prev_row[j + 1] + cost)),
                  b_len))

\* The outer loop of Resolver::edit_distance over i.
ed_rows(a_chars, b_chars, i, prev_row, a_len, b_len) ==
    IF i = a_len THEN [ok |-> TRUE, v |-> prev_row[b_len + 1]]
    ELSE Let(ed_cells(a_chars, b_chars, i, 0, prev_row, <<i + 1>>, b_len), LAMBDA r :
         IF ~r.ok THEN [ok |-> FALSE, v |-> 0]
         ELSE ed_rows(a_chars, b_chars, i + 1, r.row, a_len, b_len))

\* Resolver::edit_distance: the loops run to the byte lengths a.len() and
\* b.len() and index the vectors of chars; ok is FALSE where the index is out
\* of bounds (the code panics).
edit_distance(a, b) ==
    Let(ByteLen(a), LAMBDA a_len :
        Let(ByteLen(b), LAMBDA b_len :
    IF a_len = 0 THEN [ok |-> TRUE, v |-> b_len]
    ELSE IF b_len = 0 THEN [ok |-> TRUE, v |-> a_len]
    ELSE ed_rows(Chars[a], Chars[b], 0, [j \in 1..(b_len + 1) |-> j - 1], a_len, b_len)))

RECURSIVE find_similar_loop(_, _, _)
\* The loop of Resolver::find_similar_name; best is <<>> or <<name, dist>>.
find_similar_loop(target, names, best) ==
    IF names = <<>> THEN [ok |-> TRUE, best |-> best]
    ELSE Let(edit_distance(target, Head(names)), LAMBDA dist :
         IF ~dist.ok THEN [ok |-> FALSE, best |-> <<>>]
         ELSE IF dist.v <= 3 /\ dist.v < ByteLen(target)
                 /\ (best = <<>> \/ dist.v < best[2])
         THEN find_similar_loop(target, Tail(names), <<Head(names), dist.v>>)
         ELSE find_similar_loop(target, Tail(names), best))

\* Resolver::find_similar_name
find_similar_name(rs, target) == find_similar_loop(target, all_names(rs.symbols), <<>>)

PushError(rs, d) == [rs EXCEPT !.errors = Append(@, d)]

\* Resolver::error_undefined
error_undefined(rs, name, span) ==
    Let(find_similar_name(rs, name), LAMBDA similar :
    IF ~similar.ok THEN [rs EXCEPT !.panicked = TRUE]
    ELSE IF similar.best # <<>>
    THEN PushError(rs, Diag("Resolve", "undefined name '" \o name \o "'", span,
                            "did you mean '" \o similar.best[1] \o "'?", rs.source))
    ELSE PushError(rs, Diag("Resolve", "undefined name '" \o name \o "'", span, "",
                            rs.source)))

\* Resolver::error_redefinition
error_redefinition(rs, name, span) ==
    PushError(rs, Diag("Resolve", "redefinition of '" \o name \o "'", span, "", rs.source))

\* symbols.define(symbol) with error_redefinition on failure.
Declare(rs, symbol) ==
    Let(define(rs.symbols, symbol), LAMBDA d :
    IF d.ok THEN [rs EXCEPT !.symbols = d.st]
    ELSE error_redefinition(rs, symbol.name, symbol.sp))

RECURSIVE resolve_type(_, _)
\* Resolver::resolve_type
resolve_type(rs, ty) ==
    CASE ty.k = "Named" ->
            Let(lookup(rs.symbols, ty.s), LAMBDA sym :
            IF sym = <<>>
            THEN PushError(rs, Diag("Resolve", "undefined type '" \o ty.s \o "'", 0, "",
                                    rs.source))
            ELSE IF sym[1].kind \in {"Struct", "Enum"} THEN rs
            ELSE PushError(rs, Diag("Resolve", "'" \o ty.s \o "' is not a type", 0, "",
                                    rs.source)))
      [] ty.k \in {"Ref", "Mref", "Raw", "Rawm", "Slice", "Arr", "Opt"} ->
            resolve_type(rs, ty.kids[1])
      [] ty.k = "Res" -> resolve_type(resolve_type(rs, ty.kids[1]), ty.kids[2])
      [] OTHER -> rs

RECURSIVE resolve_expr(_, _), resolve_exprs(_, _)

\* resolve_expr over a sequence of expressions in order.
resolve_exprs(rs, exprs) ==
    IF exprs = <<>> \/ rs.panicked THEN rs
    ELSE resolve_exprs(resolve_expr(rs, Head(exprs)), Tail(exprs))

\* Resolver::resolve_expr
resolve_expr(rs, expr) ==
    CASE expr.k = "Ident" ->
            IF lookup(rs.symbols, expr.s) = <<>> THEN error_undefined(rs, expr.s, expr.sp)
            ELSE rs
      [] expr.k = "StructLit" ->
            resolve_exprs(IF lookup(rs.symbols, expr.s) = <<>>
                          THEN error_undefined(rs, expr.s, expr.sp) ELSE rs,
                          expr.kids)
      [] expr.k = "Cast" -> resolve_exprs(resolve_type(rs, expr.ty[1]), expr.kids)
      [] OTHER -> resolve_exprs(rs, expr.kids)

RECURSIVE resolve_const_expr(_, _), resolve_const_exprs(_, _)

\* resolve_const_expr over the operands of a constant expression in order.
resolve_const_exprs(rs, exprs) ==
    IF exprs = <<>> THEN rs
    ELSE resolve_const_exprs(resolve_const_expr(rs, Head(exprs)), Tail(exprs))

\* Resolver::resolve_const_expr
resolve_const_expr(rs, expr) ==
    CASE expr.k = "Ident" ->
            Let(lookup(rs.symbols, expr.s), LAMBDA sym :
            IF sym = <<>>
            THEN PushError(rs, Diag("Resolve", "undefined constant '" \o expr.s \o "'",
                                    0, "", rs.source))
            ELSE IF sym[1].kind # "Constant"
            THEN PushError(rs, Diag("Resolve", "'" \o expr.s \o "' is not a constant",
                                    0, "", rs.source))
            ELSE rs)
      [] OTHER -> resolve_const_exprs(rs, expr.kids)

\* The init clause of the For arm of Resolver::resolve_stmt: the variable of
\* ForInit::Let is defined with the result of define ignored.
resolve_for_init(rs, init) ==
    IF init = <<>> THEN rs
    ELSE IF init[1].k = "Let" THEN
        Let(resolve_expr(rs, init[1].e[1]), LAMBDA r1 :
            Let(resolve_type(r1, init[1].ty[1]), LAMBDA r2 :
        IF r1.panicked THEN r1
        ELSE [r2 EXCEPT !.symbols =
                define(@, Symbol(init[1].s, "Variable", FALSE, init[1].ty[1], 0)).st]))
    ELSE resolve_exprs(rs, init[1].e)

RECURSIVE resolve_stmt(_, _), resolve_stmts(_, _), resolve_cases(_, _)

\* The case loop of the Switch arm of Resolver::resolve_stmt: the value,
\* then the statements of the case in the enclosing scope.
resolve_cases(rs, cases) ==
    IF cases = <<>> \/ rs.panicked THEN rs
    ELSE resolve_cases(resolve_stmts(resolve_const_expr(rs, Head(cases).e[1]),
                                     Head(cases).body),
                       Tail(cases))

\* resolve_stmt over the statements of a block in order.
resolve_stmts(rs, stmts) ==
    IF stmts = <<>> \/ rs.panicked THEN rs
    ELSE resolve_stmts(resolve_stmt(rs, Head(stmts)), Tail(stmts))

\* Resolver::resolve_block
resolve_block(rs, block) ==
    Let(resolve_stmts([rs EXCEPT !.symbols = enter_scope(@)], block), LAMBDA inner :
    [inner EXCEPT !.symbols = exit_scope(@)])

\* Resolver::resolve_stmt
resolve_stmt(rs, stmt) ==
    CASE stmt.k = "Let" ->
            Let(resolve_expr(rs, stmt.e[1]), LAMBDA r1 :
                Let(resolve_type(r1, stmt.ty[1]), LAMBDA r2 :
            IF r1.panicked THEN r1
            ELSE Declare(r2, Symbol(stmt.s, "Variable", FALSE, stmt.ty[1], stmt.sp))))
      [] stmt.k = "If" ->
            Let(resolve_expr(rs, stmt.e[1]), LAMBDA r1 :
                Let(resolve_block(r1, stmt.body), LAMBDA r2 :
            IF r1.panicked THEN r1
            ELSE IF r2.panicked THEN r2
            ELSE CASE stmt.hasElse = "elseif" -> resolve_stmt(r2, stmt.els[1])
                   [] stmt.hasElse = "else" -> resolve_block(r2, stmt.els)
                   [] OTHER -> r2))
      [] stmt.k = "While" ->
            Let(resolve_expr(rs, stmt.e[1]), LAMBDA r1 :
            IF r1.panicked THEN r1 ELSE resolve_block(r1, stmt.body))
      [] stmt.k = "Switch" ->
            Let(resolve_expr(rs, stmt.e[1]), LAMBDA r1 :
            IF r1.panicked THEN r1
            ELSE resolve_stmts(resolve_cases(r1, stmt.body), stmt.els))
      [] stmt.k = "For" ->
            Let(resolve_for_init([rs EXCEPT !.symbols = enter_scope(@)], stmt.init),
                LAMBDA r1 :
                Let(resolve_exprs(r1, stmt.e), LAMBDA r2 :
                    Let(resolve_exprs(r2, IF stmt.step = <<>> THEN <<>> ELSE stmt.step[1].e),
                        LAMBDA r3 :
            [resolve_stmts(r3, stmt.body) EXCEPT !.symbols = exit_scope(@)])))
      [] stmt.k \in {"Defer", "Unsafe", "Block"} -> resolve_block(rs, stmt.body)
      [] OTHER -> resolve_exprs(rs, stmt.e)

RECURSIVE declare_items(_, _), resolve_items(_, _), resolve_params(_, _),
          resolve_types(_, _), declare_variants(_, _, _), declare_extern(_, _),
          resolve_extern(_, _)

\* Resolver::declare_extern over the prototypes of the block: the symbol has
\* SymbolKind::Function { is_unsafe: true }, its type the unsafety of the
\* prototype.
declare_extern(rs, protos) ==
    IF protos = <<>> THEN rs
    ELSE declare_extern(
            Declare(rs, Symbol(Head(protos).name, "Function", TRUE,
                               fn_type([i \in 1..Len(Head(protos).params) |->
                                            Head(protos).params[i].ty],
                                       Head(protos).ret[1], Head(protos).is_unsafe),
                               Head(protos).sp)),
            Tail(protos))

\* Resolver::declare_fn
declare_fn(rs, fn_decl) ==
    Declare(rs, Symbol(fn_decl.name, "Function", fn_decl.is_unsafe,
                       fn_type([i \in 1..Len(fn_decl.params) |-> fn_decl.params[i].ty],
                               fn_decl.ret[1], fn_decl.is_unsafe),
                       fn_decl.sp))

\* Resolver::declare_struct
declare_struct(rs, struct_decl) ==
    Declare(rs, Symbol(struct_decl.name, "Struct", FALSE,
                       T("Named", struct_decl.name, <<>>, <<>>), struct_decl.sp))

\* The variant loop of Resolver::declare_enum: each variant is a constant
\* named Enum_Variant of the type of the enum.
declare_variants(rs, enum_name, variants) ==
    IF variants = <<>> THEN rs
    ELSE declare_variants(
            Declare(rs, Symbol(enum_name \o "_" \o Head(variants).name, "Constant",
                               FALSE, T("Named", enum_name, <<>>, <<>>),
                               Head(variants).sp)),
            enum_name, Tail(variants))

\* Resolver::declare_enum
declare_enum(rs, enum_decl) ==
    declare_variants(Declare(rs, Symbol(enum_decl.name, "Enum", FALSE,
                                        T("Named", enum_decl.name, <<>>, <<>>),
                                        enum_decl.sp)),
                     enum_decl.name, enum_decl.params)

\* The first pass of Resolver::resolve: declare_item for every item, with
\* declare_mod for the items of an inline module.
declare_items(rs, items) ==
    IF items = <<>> THEN rs
    ELSE Let(Head(items), LAMBDA item :
             Let( CASE item.k = "Fn" -> declare_fn(rs, item)
                    [] item.k = "Struct" -> declare_struct(rs, item)
                    [] item.k = "Enum" -> declare_enum(rs, item)
                    [] item.k = "Mod" /\ item.hasBody -> declare_items(rs, item.items)
                    [] item.k = "Extern" -> declare_extern(rs, item.items)
                    [] OTHER -> rs, LAMBDA r :
         declare_items(r, Tail(items))))

\* The parameter loop of Resolver::resolve_fn.
resolve_params(rs, params) ==
    IF params = <<>> THEN rs
    ELSE resolve_params(
            resolve_type(Declare(rs, Symbol(Head(params).name, "Variable", FALSE,
                                            Head(params).ty, Head(params).sp)),
                         Head(params).ty),
            Tail(params))

\* Resolver::resolve_fn
resolve_fn(rs, fn_decl) ==
    Let(resolve_params([rs EXCEPT !.symbols = enter_scope(@)], fn_decl.params), LAMBDA r1 :
        Let(resolve_type(r1, fn_decl.ret[1]), LAMBDA r2 :
        Let(resolve_block(r2, fn_decl.body), LAMBDA r3 :
    [r3 EXCEPT !.symbols = exit_scope(@)])))

\* Resolver::resolve_struct
resolve_types(rs, fields) ==
    IF fields = <<>> THEN rs
    ELSE resolve_types(resolve_type(rs, Head(fields).ty), Tail(fields))

\* Resolver::resolve_extern over the prototypes of the block.
resolve_extern(rs, protos) ==
    IF protos = <<>> THEN rs
    ELSE resolve_extern(
            resolve_type(resolve_types(rs, Head(protos).params), Head(protos).ret[1]),
            Tail(protos))

\* The second pass of Resolver::resolve: resolve_item for every item, with
\* resolve_mod for the items of an inline module.
resolve_items(rs, items) ==
    IF items = <<>> \/ rs.panicked THEN rs
    ELSE Let(Head(items), LAMBDA item :
             Let( CASE item.k = "Fn" -> resolve_fn(rs, item)
                    [] item.k = "Struct" -> resolve_types(rs, item.params)
                    [] item.k = "Mod" /\ item.hasBody -> resolve_items(rs, item.items)
                    [] item.k = "Extern" -> resolve_extern(rs, item.items)
                    [] OTHER -> rs, LAMBDA r :
         resolve_items(r, Tail(items))))

\* Resolver::new
ResolverNew(source) ==
    [symbols |-> SymbolTableNew, errors |-> <<>>, source |-> source, panicked |-> FALSE]

\* Resolver::resolve: the Resolver after both passes; the result is Err of
\* CompileError::multiple(errors) when errors is not empty.
resolve(source, items) == resolve_items(declare_items(ResolverNew(source), items), items)

\* Resolver::resolve called once more on a Resolver: resolve has taken the
\* errors of the earlier call (std::mem::take) and left the symbol table.
resolve_again(rs, items) ==
    resolve_items(declare_items([rs EXCEPT !.errors = <<>>], items), items)

(***************************************************************************)
(* Type checker (typecheck/mod.rs, typecheck/safety.rs).  The TypeChecker  *)
(* object is a record tc with the fields symbols, safety (the stack of     *)
(* SafetyContext), current_fn_return_type (empty for None), errors and     *)
(* source.                                                                 *)
(***************************************************************************)

\* SafetyContext::new
SafetyContextNew == <<FALSE>>

\* SafetyContext::enter_unsafe
enter_unsafe(safety) == Append(safety, TRUE)

\* SafetyContext::exit_unsafe
exit_unsafe(safety) == IF safety = <<>> THEN safety ELSE SubSeq(safety, 1, Len(safety) - 1)

\* SafetyContext::is_unsafe
is_unsafe(safety) == IF safety = <<>> THEN FALSE ELSE safety[Len(safety)]

RECURSIVE types_compatible(_, _), TypeDebug(_)

\* TypeChecker::types_compatible
types_compatible(expected, actual) ==
    CASE expected.k = "Void" /\ actual.k = "Void" -> TRUE
      [] expected.k = "Primitive" /\ actual.k = "Primitive" -> expected.s = actual.s
      [] expected.k = "Named" /\ actual.k = "Named" -> expected.s = actual.s
      [] expected.k \in {"Ref", "Mref", "Raw", "Rawm", "Slice", "Arr", "Opt"}
            /\ actual.k = expected.k ->
            types_compatible(expected.kids[1], actual.kids[1])
      [] expected.k = "Res" /\ actual.k = "Res" ->
            /\ types_compatible(expected.kids[1], actual.kids[1])
            /\ types_compatible(expected.kids[2], actual.kids[2])
      [] expected.k = "Fn" /\ actual.k = "Fn" ->
            /\ expected.s = actual.s
            /\ Len(expected.kids) = Len(actual.kids)
            /\ \A i \in 1..Len(expected.kids) :
                    types_compatible(expected.kids[i], actual.kids[i])
      [] OTHER -> FALSE

\* TypeChecker::is_bool
is_bool(ty) == ty.k = "Primitive" /\ ty.s = "Bool"

\* TypeChecker::is_integer
is_integer(ty) == ty.k = "Primitive" /\ ty.s \in {"I32", "I64", "U32"}

\* TypeChecker::is_numeric
is_numeric(ty) == is_integer(ty) \/ (ty.k = "Primitive" /\ ty.s = "F64")

\* TypeChecker::can_cast
can_cast(from, to) ==
    \/ is_numeric(from) /\ is_numeric(to)
    \/ <<from.k, to.k>> \in {<<"Ref", "Raw">>, <<"Mref", "Rawm">>, <<"Raw", "Raw">>,
                             <<"Rawm", "Rawm">>}

\* The {:?} rendering of a TypeExpr in messages (derived Debug); the size of
\* an array and the parts of a function type are abbreviated.
TypeDebug(ty) ==
    CASE ty.k = "Void" -> "Void"
      [] ty.k = "Primitive" -> "Primitive(" \o ty.s \o ")"
      [] ty.k = "Named" -> "Named(\"" \o ty.s \o "\")"
      [] ty.k \in {"Ref", "Mref", "Raw", "Rawm", "Slice", "Opt"} ->
            ty.k \o "(" \o TypeDebug(ty.kids[1]) \o ")"
      [] ty.k = "Arr" -> "Arr(" \o TypeDebug(ty.kids[1]) \o ", ..)"
      [] OTHER -> "Fn { .. }"

\* TypeChecker::error
tc_error(tc, message, span) ==
    [tc EXCEPT !.errors = Append(@, Diag("Type", message, span, "", tc.source))]

\* TypeChecker::error_with_hint
tc_error_with_hint(tc, message, span, hint) ==
    [tc EXCEPT !.errors = Append(@, Diag("Type", message, span, hint, tc.source))]

\* TypeChecker::error_type_mismatch
error_type_mismatch(tc, expected, actual, span) ==
    tc_error(tc, "type mismatch: expected " \o TypeDebug(expected) \o ", got "
                 \o TypeDebug(actual), span)

\* TypeChecker::check_assignable
check_assignable(tc, expr, span) ==
    IF expr.k \in {"Ident", "Deref", "At", "Field"} THEN tc
    ELSE tc_error(tc, "expression is not assignable", span)

\* TypeChecker::check_addressable
check_addressable(tc, expr, span) ==
    IF expr.k \in {"Ident", "Deref", "At", "Field"} THEN tc
    ELSE tc_error(tc, "cannot take address of expression", span)

TBool == T("Primitive", "Bool", <<>>, <<>>)
TVoid == T("Void", "", <<>>, <<>>)

\* An inferred type with the checker after the inference.
Inferred(ty, tc) == [ty |-> ty, tc |-> tc]

\* tc with one more error when the condition holds.
ErrorIf(tc, cond, message, span) == IF cond THEN tc_error(tc, message, span) ELSE tc

RECURSIVE infer_expr(_, _), infer_args(_, _, _)

\* The argument loop of a call in TypeChecker::infer_expr: the arguments
\* zipped with the parameter types.
infer_args(tc, args, params) ==
    IF args = <<>> \/ params = <<>> THEN tc
    ELSE Let(infer_expr(tc, Head(args)), LAMBDA a :
         infer_args(IF types_compatible(Head(params), a.ty) THEN a.tc
                    ELSE error_type_mismatch(a.tc, Head(params), a.ty, Head(args).sp),
                    Tail(args), Tail(params)))

\* TypeChecker::infer_expr
infer_expr(tc, expr) ==
    CASE expr.k = "IntLit" -> Inferred(T("Primitive", "I32", <<>>, <<>>), tc)
      [] expr.k = "BoolLit" -> Inferred(TBool, tc)
      [] expr.k = "Ident" ->
            Let(lookup(tc.symbols, expr.s), LAMBDA sym :
            Inferred(IF sym # <<>> THEN sym[1].ty ELSE TVoid, tc))
      [] expr.k = "Binary" ->
            Let(infer_expr(tc, expr.kids[1]), LAMBDA l :
                Let(infer_expr(l.tc, expr.kids[2]), LAMBDA r :
                Let(  IF types_compatible(l.ty, r.ty) THEN r.tc
                      ELSE error_type_mismatch(r.tc, l.ty, r.ty, expr.sp), LAMBDA t1 :
            CASE expr.s \in {"Eq", "Ne", "Lt", "Le", "Gt", "Ge"} -> Inferred(TBool, t1)
              [] expr.s \in {"And", "Or"} ->
                    Inferred(TBool,
                             ErrorIf(t1, ~is_bool(l.ty),
                                     "logical operator requires bool, got "
                                     \o TypeDebug(l.ty), expr.sp))
              [] OTHER -> Inferred(l.ty, t1))))
      [] expr.k = "Unary" ->
            Let(infer_expr(tc, expr.kids[1]), LAMBDA o :
            IF expr.s = "Neg"
            THEN Inferred(o.ty, ErrorIf(o.tc, ~is_numeric(o.ty),
                                        "negation requires numeric type, got "
                                        \o TypeDebug(o.ty), expr.sp))
            ELSE Inferred(TBool, ErrorIf(o.tc, ~is_bool(o.ty),
                                         "logical not requires bool, got "
                                         \o TypeDebug(o.ty), expr.sp)))
      [] expr.k = "Paren" -> infer_expr(tc, expr.kids[1])
      [] expr.k = "Call" ->
            Let(infer_expr(tc, expr.kids[1]), LAMBDA c :
                Let(Tail(expr.kids), LAMBDA args :
            IF c.ty.k = "Fn" THEN
                Let(SubSeq(c.ty.kids, 1, Len(c.ty.kids) - 1), LAMBDA params :
                    Let(  IF c.ty.s = "unsafe" /\ ~is_unsafe(c.tc.safety)
                          THEN tc_error_with_hint(c.tc,
                                   "call to unsafe function requires unsafe block", expr.sp,
                                   "wrap the call in an unsafe block: unsafe { ... }")
                          ELSE c.tc, LAMBDA t1 :
                    Let(  ErrorIf(t1, Len(args) # Len(params),
                                  "expected " \o ToString(Len(params)) \o " arguments, got "
                                  \o ToString(Len(args)), expr.sp), LAMBDA t2 :
                Inferred(c.ty.kids[Len(c.ty.kids)], infer_args(t2, args, params)))))
            ELSE Inferred(TVoid, tc_error(c.tc, "cannot call non-function type "
                                                \o TypeDebug(c.ty), expr.sp))))
      [] expr.k = "Field" ->
            Let(infer_expr(tc, expr.kids[1]), LAMBDA b :
            Inferred(TVoid, ErrorIf(b.tc, b.ty.k # "Named",
                                    "field access on non-struct type " \o TypeDebug(b.ty),
                                    expr.sp)))
      [] expr.k = "Addr" ->
            Let(infer_expr(tc, expr.kids[1]), LAMBDA o :
            Inferred(T("Ref", "", <<o.ty>>, <<>>),
                     check_addressable(o.tc, expr.kids[1], expr.sp)))
      [] expr.k = "Deref" ->
            Let(infer_expr(tc, expr.kids[1]), LAMBDA o :
            CASE o.ty.k \in {"Ref", "Mref"} -> Inferred(o.ty.kids[1], o.tc)
              [] o.ty.k \in {"Raw", "Rawm"} ->
                    Inferred(o.ty.kids[1],
                             ErrorIf(o.tc, ~is_unsafe(o.tc.safety),
                                     "dereference of raw pointer requires unsafe block",
                                     expr.sp))
              [] OTHER ->
                    Inferred(TVoid, tc_error(o.tc, "cannot dereference non-pointer type "
                                                   \o TypeDebug(o.ty), expr.sp)))
      [] expr.k = "At" ->
            Let(infer_expr(tc, expr.kids[1]), LAMBDA b :
                Let(infer_expr(b.tc, expr.kids[2]), LAMBDA i :
                Let(  ErrorIf(i.tc, ~is_integer(i.ty),
                              "index must be integer, got " \o TypeDebug(i.ty), expr.sp), LAMBDA t1 :
            IF b.ty.k \in {"Slice", "Arr"} THEN Inferred(b.ty.kids[1], t1)
            ELSE Inferred(TVoid, tc_error(t1, "cannot index non-array type "
                                              \o TypeDebug(b.ty), expr.sp)))))
      [] expr.k = "Cast" ->
            Let(infer_expr(tc, expr.kids[1]), LAMBDA x :
            Inferred(expr.ty[1],
                     ErrorIf(x.tc, ~can_cast(x.ty, expr.ty[1]),
                             "cannot cast " \o TypeDebug(x.ty) \o " to "
                                 \o TypeDebug(expr.ty[1]), expr.sp)))
      [] OTHER -> Inferred(T("Named", expr.s, <<>>, <<>>), tc)

RECURSIVE DebugStrings(_)

\* The elements of the {:?} form of a Vec<String>, after the first one.
DebugStrings(names) ==
    IF names = <<>> THEN ""
    ELSE ", \"" \o Head(names) \o "\"" \o DebugStrings(Tail(names))

\* format!("{:?}", names) of a Vec<String>
VecDebug(names) ==
    IF names = <<>> THEN "[]"
    ELSE "[\"" \o Head(names) \o "\"" \o DebugStrings(Tail(names)) \o "]"

\* The exhaustiveness check of the Switch arm of TypeChecker::check_stmt on
\* a switch whose scrutinee has the type of the declared enum enum_name: the
\* variants that no case names, collected from a HashSet in the order the
\* hasher of the checker gives, are an error when there is no default arm.
check_exhaustive(tc, enum_name, stmt) ==
    Let({enum_name \o "_" \o tc.enum_decls[enum_name].params[i].name :
            i \in 1..Len(tc.enum_decls[enum_name].params)}, LAMBDA expected_variants :
        Let({stmt.body[i].e[1].s :
                i \in {j \in 1..Len(stmt.body) : stmt.body[j].e[1].k = "Ident"}},
            LAMBDA covered_variants :
        Let(Iter(expected_variants \ covered_variants, tc.hasher), LAMBDA missing :
    ErrorIf(tc, missing # <<>> /\ stmt.hasElse # "default",
            "non-exhaustive switch on enum '" \o enum_name \o "': missing variants "
                \o VecDebug(missing),
            stmt.sp))))

\* The init and step clauses of the For arm of TypeChecker::check_stmt.
check_for_clause(tc, clause) ==
    IF clause = <<>> THEN tc
    ELSE CASE clause[1].k = "Let" ->
            Let(infer_expr(tc, clause[1].e[1]), LAMBDA init :
                Let(  IF types_compatible(clause[1].ty[1], init.ty) THEN init.tc
                      ELSE error_type_mismatch(init.tc, clause[1].ty[1], init.ty,
                                               clause[1].e[1].sp), LAMBDA t1 :
            [t1 EXCEPT !.symbols =
                define(@, Symbol(clause[1].s, "Variable", FALSE, clause[1].ty[1], 0)).st]))
      [] clause[1].k = "Assign" ->
            Let(infer_expr(tc, clause[1].e[1]), LAMBDA l :
                Let(infer_expr(l.tc, clause[1].e[2]), LAMBDA r :
            IF types_compatible(l.ty, r.ty) THEN r.tc
            ELSE error_type_mismatch(r.tc, l.ty, r.ty, clause[1].e[1].sp)))
      [] OTHER -> infer_expr(tc, clause[1].e[1]).tc

RECURSIVE check_stmt(_, _), check_stmts(_, _), check_block(_, _), check_cases(_, _)

\* The case loop of the Switch arm of TypeChecker::check_stmt.
check_cases(tc, cases) ==
    IF cases = <<>> THEN tc
    ELSE check_cases(check_stmts(tc, Head(cases).body), Tail(cases))

\* The statement loop of TypeChecker::check_block.
check_stmts(tc, stmts) ==
    IF stmts = <<>> THEN tc ELSE check_stmts(check_stmt(tc, Head(stmts)), Tail(stmts))

\* TypeChecker::check_block
check_block(tc, block) ==
    Let(check_stmts([tc EXCEPT !.symbols = enter_scope(@)], block), LAMBDA t1 :
    [t1 EXCEPT !.symbols = exit_scope(@)])

\* TypeChecker::check_stmt
check_stmt(tc, stmt) ==
    CASE stmt.k = "Let" ->
            Let(infer_expr(tc, stmt.e[1]), LAMBDA init :
                Let(  IF types_compatible(stmt.ty[1], init.ty) THEN init.tc
                      ELSE error_type_mismatch(init.tc, stmt.ty[1], init.ty, stmt.sp), LAMBDA t1 :
            [t1 EXCEPT !.symbols =
                define(@, Symbol(stmt.s, "Variable", FALSE, stmt.ty[1], stmt.sp)).st]))
      [] stmt.k = "Assign" ->
            Let(infer_expr(tc, stmt.e[1]), LAMBDA l :
                Let(infer_expr(l.tc, stmt.e[2]), LAMBDA r :
                Let(  IF types_compatible(l.ty, r.ty) THEN r.tc
                      ELSE error_type_mismatch(r.tc, l.ty, r.ty, stmt.sp), LAMBDA t1 :
            check_assignable(t1, stmt.e[1], stmt.sp))))
      [] stmt.k = "If" ->
            Let(infer_expr(tc, stmt.e[1]), LAMBDA c :
                Let(  ErrorIf(c.tc, ~is_bool(c.ty),
                              "condition must be bool, got " \o TypeDebug(c.ty), stmt.sp), LAMBDA t1 :
                Let(check_block(t1, stmt.body), LAMBDA t2 :
            CASE stmt.hasElse = "elseif" -> check_stmt(t2, stmt.els[1])
              [] stmt.hasElse = "else" -> check_block(t2, stmt.els)
              [] OTHER -> t2)))
      [] stmt.k = "While" ->
            Let(infer_expr(tc, stmt.e[1]), LAMBDA c :
                Let(  ErrorIf(c.tc, ~is_bool(c.ty),
                              "condition must be bool, got " \o TypeDebug(c.ty), stmt.sp), LAMBDA t1 :
            check_block(t1, stmt.body)))
      [] stmt.k = "Return" ->
            Let(            IF tc.current_fn_return_type = <<>> THEN TVoid
                            ELSE tc.current_fn_return_type[1], LAMBDA expected :
            IF stmt.e # <<>> THEN
                Let(infer_expr(tc, stmt.e[1]), LAMBDA actual :
                IF types_compatible(expected, actual.ty) THEN actual.tc
                ELSE error_type_mismatch(actual.tc, expected, actual.ty, stmt.sp))
            ELSE ErrorIf(tc, expected.k # "Void",
                         "expected return value of type " \o TypeDebug(expected), stmt.sp))
      [] stmt.k = "Switch" ->
            Let(infer_expr(tc, stmt.e[1]), LAMBDA x :
                Let(  ErrorIf(x.tc, ~is_integer(x.ty) /\ x.ty.k # "Named",
                              "switch expression must be integer or enum, got "
                                  \o TypeDebug(x.ty), stmt.e[1].sp), LAMBDA t1 :
                Let(  IF x.ty.k = "Named" /\ x.ty.s \in DOMAIN t1.enum_decls
                      THEN check_exhaustive(t1, x.ty.s, stmt) ELSE t1, LAMBDA t2 :
            check_stmts(check_cases(t2, stmt.body), stmt.els))))
      [] stmt.k = "For" ->
            Let(check_for_clause([tc EXCEPT !.symbols = enter_scope(@)], stmt.init),
                LAMBDA t1 :
                Let(  IF stmt.e = <<>> THEN t1
                      ELSE Let(infer_expr(t1, stmt.e[1]), LAMBDA c :
                           ErrorIf(c.tc, ~is_bool(c.ty),
                                   "for condition must be bool, got " \o TypeDebug(c.ty),
                                   stmt.e[1].sp)), LAMBDA t2 :
                Let(check_for_clause(t2, stmt.step), LAMBDA t3 :
            [check_stmts(t3, stmt.body) EXCEPT !.symbols = exit_scope(@)])))
      [] stmt.k \in {"Break", "Continue"} -> tc
      [] stmt.k \in {"Expr", "Discard"} -> infer_expr(tc, stmt.e[1]).tc
      [] stmt.k = "Unsafe" ->
            Let(check_block([tc EXCEPT !.safety = enter_unsafe(@)], stmt.body), LAMBDA t1 :
            [t1 EXCEPT !.safety = exit_unsafe(@)])
      [] OTHER -> check_block(tc, stmt.body)

RECURSIVE define_params(_, _), check_items(_, _), collect_enum_decls(_, _)

\* The parameter loop of TypeChecker::check_fn; a failed define is ignored.
define_params(symbols, params) ==
    IF params = <<>> THEN symbols
    ELSE define_params(define(symbols, Symbol(Head(params).name, "Variable", FALSE,
                                              Head(params).ty, Head(params).sp)).st,
                       Tail(params))

\* TypeChecker::check_fn
check_fn(tc, fn_decl) ==
    Let([tc EXCEPT !.symbols = enter_scope(@)], LAMBDA t1 :
        Let(IF fn_decl.is_unsafe THEN [t1 EXCEPT !.safety = enter_unsafe(@)] ELSE t1, LAMBDA t2 :
        Let(  [t2 EXCEPT !.current_fn_return_type = fn_decl.ret,
                         !.symbols = define_params(@, fn_decl.params)], LAMBDA t3 :
        Let([check_block(t3, fn_decl.body) EXCEPT !.current_fn_return_type = <<>>], LAMBDA t4 :
        Let(IF fn_decl.is_unsafe THEN [t4 EXCEPT !.safety = exit_unsafe(@)] ELSE t4, LAMBDA t5 :
    [t5 EXCEPT !.symbols = exit_scope(@)])))))

\* TypeChecker::validate_ffi_type; no struct of the model has @repr(C).
validate_ffi_type(tc, ty, span) ==
    CASE ty.k = "Opt" -> tc_error(tc, "opt(T) is not permitted in extern signatures", span)
      [] ty.k = "Res" -> tc_error(tc, "res(T, E) is not permitted in extern signatures", span)
      [] ty.k = "Named" /\ ty.s \in tc.struct_decls ->
            tc_error(tc, "struct '" \o ty.s
                         \o "' passed by value in extern must have @repr(C)", span)
      [] OTHER -> tc

RECURSIVE validate_ffi_params(_, _, _), check_extern(_, _)

validate_ffi_params(tc, params, span) ==
    IF params = <<>> THEN tc
    ELSE validate_ffi_params(validate_ffi_type(tc, Head(params).ty, span), Tail(params), span)

\* The Item::Extern arm of TypeChecker::check_item: the return type, then
\* the parameters of every prototype.
check_extern(tc, protos) ==
    IF protos = <<>> THEN tc
    ELSE check_extern(
            validate_ffi_params(validate_ffi_type(tc, Head(protos).ret[1], Head(protos).sp),
                                Head(protos).params, Head(protos).sp),
            Tail(protos))

\* TypeChecker::check_item: functions and extern blocks are checked.
check_item(tc, item) ==
    CASE item.k = "Fn" -> check_fn(tc, item)
      [] item.k = "Extern" -> check_extern(tc, item.items)
      [] OTHER -> tc

\* The second pass of TypeChecker::check.
check_items(tc, items) ==
    IF items = <<>> THEN tc ELSE check_items(check_item(tc, Head(items)), Tail(items))

\* TypeChecker::new; hasher stands for the state of the hashers of the sets
\* the checker builds.
TypeCheckerNew(source, symbols) ==
    [source |-> source, symbols |-> symbols, safety |-> SafetyContextNew,
     current_fn_return_type |-> <<>>, errors |-> <<>>, enum_decls |-> <<>>,
     struct_decls |-> {}, hasher |-> 0]

\* The first pass of TypeChecker::check: the names of the structs among the
\* items of the file.
collect_struct_decls(items) ==
    {items[i].name : i \in {j \in 1..Len(items) : items[j].k = "Struct"}}

\* The first pass of TypeChecker::check: the enums among the items of the
\* file by name.
collect_enum_decls(items, enum_decls) ==
    IF items = <<>> THEN enum_decls
    ELSE collect_enum_decls(Tail(items),
            IF Head(items).k = "Enum"
            THEN insert(enum_decls, Head(items).name, Head(items))
            ELSE enum_decls)

\* TypeChecker::check: the checker after both passes over the items; the
\* result is Err of CompileError::multiple(errors) when errors is not empty.
typecheck(source, symbols, items, seed) ==
    check_items([TypeCheckerNew(source, symbols) EXCEPT
                    !.enum_decls = collect_enum_decls(items, @),
                    !.struct_decls = collect_struct_decls(items),
                    !.hasher = seed],
                items)

(***************************************************************************)
(* Power of 10 analysis (p10/mod.rs, p10/config.rs, p10/rules).  A config  *)
(* is a record with the fields level, max_function_lines,                  *)
(* max_pointer_depth and allow_recursion.  A HashMap is a function; the    *)
(* order in which its keys are iterated is given by a seed.                *)
(***************************************************************************)

\* P10Config::standard, P10Config::safety_critical and P10Config::relaxed
P10Standard ==
    [level |-> "Standard", max_function_lines |-> 60, max_pointer_depth |-> 1,
     allow_recursion |-> TRUE]
P10SafetyCritical ==
    [level |-> "SafetyCritical", max_function_lines |-> 60, max_pointer_depth |-> 1,
     allow_recursion |-> FALSE]
P10Relaxed ==
    [level |-> "Relaxed", max_function_lines |-> 200, max_pointer_depth |-> 10,
     allow_recursion |-> TRUE]

\* A P10Config that a caller of check_with_p10 or compile_with_p10 builds:
\* the standard one with a small max_function_lines.
TightLines == 2
P10Tight == [P10Standard EXCEPT !.max_function_lines = TightLines]

\* P10Config::is_enabled
p10_is_enabled(config) == config.level # "Relaxed"

\* P10Violation::new with with_help and with_note
P10Violation(rule, message, span, help, note) ==
    [rule |-> rule, code |-> "P10-00" \o ToString(rule), message |-> message,
     span |-> span, help |-> help, note |-> note]

RECURSIVE is_unbounded_while(_), deref_depth(_)

\* LoopBoundsRule::is_unbounded_while
is_unbounded_while(cond) ==
    CASE cond.k = "BoolLit" -> cond.n = 1
      [] cond.k = "Paren" -> is_unbounded_while(cond.kids[1])
      [] cond.k = "IntLit" -> cond.n # 0
      [] OTHER -> FALSE

\* PointerDepthRule::deref_depth
deref_depth(expr) ==
    CASE expr.k = "Deref" -> 1 + deref_depth(expr.kids[1])
      [] expr.k = "Paren" -> deref_depth(expr.kids[1])
      [] OTHER -> 0

\* ALLOC_FUNCTIONS
ALLOC_FUNCTIONS ==
    {"malloc", "calloc", "realloc", "free", "alloca", "aligned_alloc",
     "posix_memalign", "valloc", "pvalloc", "memalign", "operator new",
     "operator delete"}

\* RuleRegistry::new: the rules of the registry in order.
P10Rules ==
    <<"no-recursion", "loop-bounds", "no-runtime-alloc", "function-size", "pointer-depth">>

\* P10Rule::is_enabled of a rule
rule_is_enabled(rule, config) ==
    IF rule = "no-recursion"
    THEN ~config.allow_recursion /\ config.level = "SafetyCritical"
    ELSE config.level # "Relaxed"

RECURSIVE collect_calls_from_expr(_, _), collect_calls(_, _)

\* ControlFlowRule::collect_calls_from_expr
collect_calls_from_expr(expr, known_fns) ==
    (IF expr.k = "Call" /\ expr.kids[1].k = "Ident" /\ expr.kids[1].s \in known_fns
     THEN {expr.kids[1].s} ELSE {})
    \cup UNION {collect_calls_from_expr(expr.kids[i], known_fns) : i \in 1..Len(expr.kids)}

\* ControlFlowRule::collect_calls_from_stmt
collect_calls_from_stmt(stmt, known_fns) ==
    UNION {collect_calls_from_expr(stmt.e[i], known_fns) : i \in 1..Len(stmt.e)}
    \cup collect_calls(stmt.body, known_fns) \cup collect_calls(stmt.els, known_fns)
    \cup collect_calls(stmt.init, known_fns) \cup collect_calls(stmt.step, known_fns)

\* ControlFlowRule::collect_calls
collect_calls(stmts, known_fns) ==
    UNION {collect_calls_from_stmt(stmts[i], known_fns) : i \in 1..Len(stmts)}

\* ControlFlowRule::build_call_graph: the functions at the top level of the
\* file, each with the known functions its body calls.
build_call_graph(items) ==
    Let({items[i].name : i \in {j \in 1..Len(items) : items[j].k = "Fn"}}, LAMBDA known_fns :
    [name \in known_fns |->
        UNION {collect_calls(items[i].body, known_fns) :
                  i \in {j \in 1..Len(items) : items[j].k = "Fn" /\ items[j].name = name}}])

\* The state of find_recursive_cycles before the first node is visited.
TarjanNew ==
    [index_counter |-> 0, stack |-> <<>>, lowlinks |-> <<>>, indices |-> <<>>,
     on_stack |-> {}, sccs |-> <<>>]

RECURSIVE strongconnect(_, _, _, _), visit_successors(_, _, _, _, _), pop_scc(_, _, _),
          visit_nodes(_, _, _, _)

\* The loop over the successors ws of v in strongconnect.
visit_successors(v, ws, graph, st, seed) ==
    IF ws = <<>> THEN st
    ELSE Let(Head(ws), LAMBDA w :
         IF w \notin DOMAIN st.indices
         THEN Let(strongconnect(w, graph, st, seed), LAMBDA s1 :
              visit_successors(v, Tail(ws), graph,
                  [s1 EXCEPT !.lowlinks =
                        insert(@, v, Min(s1.lowlinks[v], s1.lowlinks[w]))], seed))
         ELSE IF w \in st.on_stack
         THEN visit_successors(v, Tail(ws), graph,
                  [st EXCEPT !.lowlinks =
                        insert(@, v, Min(st.lowlinks[v], st.indices[w]))], seed)
         ELSE visit_successors(v, Tail(ws), graph, st, seed))

\* The loop of strongconnect that pops the component of v off the stack.
pop_scc(v, st, scc) ==
    Let(st.stack[Len(st.stack)], LAMBDA w :
    Let([st EXCEPT !.stack = SubSeq(@, 1, Len(@) - 1), !.on_stack = @ \ {w}], LAMBDA s1 :
    IF w = v THEN [st |-> s1, scc |-> Append(scc, w)]
    ELSE pop_scc(v, s1, Append(scc, w))))

\* strongconnect of find_recursive_cycles
strongconnect(v, graph, st, seed) ==
    Let(visit_successors(v, Iter(graph[v], seed), graph,
            [st EXCEPT !.indices = insert(@, v, st.index_counter),
                       !.lowlinks = insert(@, v, st.index_counter),
                       !.index_counter = @ + 1,
                       !.stack = Append(@, v),
                       !.on_stack = @ \cup {v}], seed), LAMBDA s1 :
    IF s1.lowlinks[v] # s1.indices[v] THEN s1
    ELSE Let(pop_scc(v, s1, <<>>), LAMBDA r :
         IF Len(r.scc) > 1 \/ r.scc[1] \in graph[r.scc[1]]
         THEN [r.st EXCEPT !.sccs = Append(@, r.scc)]
         ELSE r.st))

\* The loop over graph.keys() of find_recursive_cycles.
visit_nodes(nodes, graph, st, seed) ==
    IF nodes = <<>> THEN st
    ELSE visit_nodes(Tail(nodes), graph,
             IF Head(nodes) \in DOMAIN st.indices THEN st
             ELSE strongconnect(Head(nodes), graph, st, seed), seed)

\* ControlFlowRule::find_recursive_cycles
find_recursive_cycles(graph, seed) ==
    visit_nodes(Iter(DOMAIN graph, seed), graph, TarjanNew, seed).sccs

\* ControlFlowRule::get_function_span, empty for None
get_function_span(items, name) ==
    Let(SelectSeq(items, LAMBDA item : item.k = "Fn" /\ item.name = name), LAMBDA found :
    IF found = <<>> THEN <<>> ELSE <<found[1].sp>>)

RECURSIVE cycle_str(_), cycle_violations(_, _, _), cycles_violations(_, _)

\* cycle.join(" -> ")
cycle_str(cycle) ==
    IF Len(cycle) = 1 THEN cycle[1] ELSE cycle[1] \o " -> " \o cycle_str(Tail(cycle))

\* The loop over the functions of one cycle in ControlFlowRule::check_file.
cycle_violations(items, names, cycle) ==
    IF names = <<>> THEN <<>>
    ELSE (IF get_function_span(items, Head(names)) = <<>> THEN <<>>
          ELSE <<P10Violation(1, "function '" \o Head(names)
                                 \o "' is part of a recursive call cycle",
                    get_function_span(items, Head(names))[1],
                    "Power of 10 Rule 1 forbids recursion; use iteration instead",
                    "Recursive cycle: " \o cycle_str(cycle))>>)
         \o cycle_violations(items, Tail(names), cycle)

\* The loop over the cycles in ControlFlowRule::check_file.
cycles_violations(items, cycles) ==
    IF cycles = <<>> THEN <<>>
    ELSE cycle_violations(items, Head(cycles), Head(cycles))
         \o cycles_violations(items, Tail(cycles))

\* P10Rule::check_file of a rule
rule_check_file(rule, items, seed) ==
    IF rule = "no-recursion"
    THEN cycles_violations(items, find_recursive_cycles(build_call_graph(items), seed))
    ELSE <<>>

\* LoopBoundsRule::is_bounded_for
is_bounded_for(cond) == cond # <<>>

\* P10Rule::check_stmt of a rule
rule_check_stmt(rule, stmt) ==
    IF rule = "loop-bounds" /\ stmt.k = "While" /\ is_unbounded_while(stmt.e[1])
    THEN <<P10Violation(2, "while loop has no provable upper bound", stmt.sp,
              "Power of 10 Rule 2 requires all loops have provable termination",
              "Consider using a for loop with explicit bounds or add a maximum iteration counter")>>
    ELSE IF rule = "loop-bounds" /\ stmt.k = "For" /\ ~is_bounded_for(stmt.e)
    THEN <<P10Violation(2, "for loop has no termination condition", stmt.sp,
              "Power of 10 Rule 2 requires all loops have provable termination",
              "Add a condition to ensure the loop terminates")>>
    ELSE <<>>

RECURSIVE split_lines(_, _, _)

\* str::lines on the lexemes of a text: the lexemes of each line.
split_lines(lexemes, line, acc) ==
    IF lexemes = <<>> THEN (IF line = <<>> THEN acc ELSE Append(acc, line))
    ELSE IF Head(lexemes) = "\n" THEN split_lines(Tail(lexemes), <<>>, Append(acc, line))
    ELSE split_lines(Tail(lexemes), Append(line, Head(lexemes)), acc)

RECURSIVE slice_from(_, _, _, _)

\* The lexemes of a text that starts at offset which lie in the byte range.
slice_from(lexemes, offset, start, end) ==
    IF lexemes = <<>> THEN <<>>
    ELSE (IF start <= offset /\ offset < end THEN <<Head(lexemes)>> ELSE <<>>)
         \o slice_from(Tail(lexemes), offset + Width(Head(lexemes)) + 1, start, end)

\* &source[start..end]: the lexemes of the source in the byte range.
slice_text(source, start, end) == slice_from(source, 0, start, end)

\* The filter of count_lines on a line: the trimmed line is not empty, does
\* not start with "//" and is neither "{" nor "}".
is_counted_line(line) ==
    /\ line # <<>>
    /\ ~(Len(line[1]) >= 2 /\ SubSeq(line[1], 1, 2) = "//")
    /\ line # <<"{">>
    /\ line # <<"}">>

\* FunctionSizeRule::count_lines
count_lines(func, source) ==
    IF func.body_sp[2] <= func.body_sp[1] \/ func.body_sp[2] > SourceLen(source) THEN 0
    ELSE Len(SelectSeq(split_lines(slice_text(source, func.body_sp[1], func.body_sp[2]),
                                   <<>>, <<>>),
                       is_counted_line))

\* P10Rule::check_function of a rule
rule_check_function(rule, func, config, source) ==
    IF rule = "function-size" /\ count_lines(func, source) > config.max_function_lines
    THEN <<P10Violation(4, "function '" \o func.name \o "' has "
                           \o ToString(count_lines(func, source)) \o " lines, exceeds "
                           \o ToString(config.max_function_lines) \o " line limit", func.sp,
              "Power of 10 Rule 4 requires functions fit on one printed page",
              "Consider breaking this function into smaller, focused functions")>>
    ELSE <<>>

\* P10Rule::check_expr of a rule
rule_check_expr(rule, expr, config) ==
    CASE rule = "no-runtime-alloc" /\ expr.k = "Call" /\ expr.kids[1].k = "Ident"
            /\ expr.kids[1].s \in ALLOC_FUNCTIONS ->
            <<P10Violation(3, "call to memory allocator '" \o expr.kids[1].s
                              \o "' is not allowed in safety-critical code", expr.sp,
                  "Power of 10 Rule 3 forbids dynamic memory allocation after initialization",
                  "Use statically allocated memory or preallocate during initialization")>>
      [] rule = "pointer-depth" /\ expr.k = "Deref"
            /\ deref_depth(expr) > config.max_pointer_depth ->
            <<P10Violation(9, "pointer dereference depth " \o ToString(deref_depth(expr))
                              \o " exceeds maximum of "
                              \o ToString(config.max_pointer_depth), expr.sp,
                  "Power of 10 Rule 9 restricts pointer use to single dereference",
                  "Consider using intermediate variables or restructuring data")>>
      [] OTHER -> <<>>

RECURSIVE check_block_recursive(_, _, _), check_stmt_recursive(_, _, _),
          rule_check_exprs(_, _, _), registry_check_items(_, _, _, _),
          rule_check_stmts(_, _), rule_check_cases(_, _)

\* check_stmt of a rule on statements in order.
rule_check_stmts(rule, stmts) ==
    IF stmts = <<>> THEN <<>>
    ELSE rule_check_stmt(rule, Head(stmts)) \o rule_check_stmts(rule, Tail(stmts))

\* The case loop of the Switch arm of RuleRegistry::check_stmt_recursive.
rule_check_cases(rule, cases) ==
    IF cases = <<>> THEN <<>>
    ELSE rule_check_stmts(rule, Head(cases).body) \o rule_check_cases(rule, Tail(cases))

\* check_expr of a rule on expressions in order.
rule_check_exprs(rule, exprs, config) ==
    IF exprs = <<>> THEN <<>>
    ELSE rule_check_expr(rule, Head(exprs), config)
         \o rule_check_exprs(rule, Tail(exprs), config)

\* RuleRegistry::check_block_recursive
check_block_recursive(block, rule, config) ==
    IF block = <<>> THEN <<>>
    ELSE rule_check_stmt(rule, Head(block))
         \o check_stmt_recursive(Head(block), rule, config)
         \o check_block_recursive(Tail(block), rule, config)

\* RuleRegistry::check_stmt_recursive
check_stmt_recursive(stmt, rule, config) ==
    CASE stmt.k = "If" ->
            rule_check_exprs(rule, stmt.e, config)
            \o check_block_recursive(stmt.body, rule, config)
            \o (CASE stmt.hasElse = "elseif" ->
                        check_stmt_recursive(stmt.els[1], rule, config)
                  [] stmt.hasElse = "else" -> check_block_recursive(stmt.els, rule, config)
                  [] OTHER -> <<>>)
      [] stmt.k = "While" ->
            rule_check_exprs(rule, stmt.e, config)
            \o check_block_recursive(stmt.body, rule, config)
      [] stmt.k = "Switch" ->
            rule_check_exprs(rule, stmt.e, config)
            \o rule_check_cases(rule, stmt.body)
            \o rule_check_stmts(rule, stmt.els)
      [] stmt.k \in {"For", "Block", "Unsafe", "Defer"} ->
            check_block_recursive(stmt.body, rule, config)
      [] OTHER -> rule_check_exprs(rule, stmt.e, config)

\* The item loop of RuleRegistry::check_file for one rule: the functions at
\* the top level.
registry_check_items(items, rule, config, source) ==
    IF items = <<>> THEN <<>>
    ELSE (IF Head(items).k = "Fn"
          THEN rule_check_function(rule, Head(items), config, source)
               \o check_block_recursive(Head(items).body, rule, config)
          ELSE <<>>)
         \o registry_check_items(Tail(items), rule, config, source)

RECURSIVE registry_check_file(_, _, _, _, _)
\* RuleRegistry::check_file over the enabled rules.
registry_check_file(items, rules, config, source, seed) ==
    IF rules = <<>> THEN <<>>
    ELSE (IF rule_is_enabled(Head(rules), config)
          THEN rule_check_file(Head(rules), items, seed)
               \o registry_check_items(items, Head(rules), config, source)
          ELSE <<>>)
         \o registry_check_file(items, Tail(rules), config, source, seed)

\* P10Checker::check
p10_check(config, items, source, seed) ==
    IF ~p10_is_enabled(config) THEN <<>>
    ELSE registry_check_file(items, P10Rules, config, source, seed)

\* P10Checker::violation_to_error; every rule modelled sets both help and
\* note, so the hint is that of the (Some(help), Some(note)) arm.
violation_to_error(violation, source) ==
    [Diag("P10", violation.message, violation.span,
          violation.help \o "\nNote: " \o violation.note, source)
     EXCEPT !.code = violation.code]

\* P10Checker::check_and_report: the errors, empty for Ok; the result is Err
\* of CompileError::multiple(errors) otherwise.
check_and_report(config, items, source, seed) ==
    Let(p10_check(config, items, source, seed), LAMBDA violations :
    [i \in 1..Len(violations) |-> violation_to_error(violations[i], source)])

(***************************************************************************)
(* Module loader (deps/loader.rs, deps/resolver.rs).  The file system is a *)
(* record fs: files maps each existing path to the source of the file,     *)
(* unreadable is the set of paths whose read fails.  A loader ld holds fs, *)
(* the directory src_dir of its resolver, the set loaded and reads, the    *)
(* paths it has read with read_to_string, in order.  An expansion that has *)
(* read MaxReads files is cut off as Unbounded: the model has fewer module *)
(* files, so an expansion that gets there would read without end.          *)
(***************************************************************************)

MaxReads == 4

\* Path::join
join(dir, name) == IF dir = "" THEN name ELSE dir \o "/" \o name

\* ModuleLoader::new
ModuleLoaderNew(fs, project_root) ==
    [fs |-> fs, src_dir |-> join(project_root, "src"), loaded |-> {}, reads |-> <<>>]

\* Display of LoaderError
LoaderErrorDisplay(e) ==
    CASE e.variant = "ModuleNotFound" ->
            "module '" \o e.name \o "' not found, searched: " \o e.searched[1] \o ", "
            \o e.searched[2]
      [] e.variant = "CircularImport" ->
            "circular import detected: module '" \o e.name \o "' at " \o e.path
      [] e.variant = "Io" -> "failed to read " \o e.path \o ": " \o e.error
      [] OTHER -> "failed to parse " \o e.path \o ": " \o e.error

LoaderError(variant, name, path, searched, text) ==
    [variant |-> variant, name |-> name, path |-> path, searched |-> searched,
     error |-> text]

\* The conversion with the loader failures surfaced as Resolve errors.
LoaderErrorAsResolve(e) == Diag("Resolve", LoaderErrorDisplay(e), 0, "", <<>>)

\* From<LoaderError> for CompileError
LoaderErrorToCompileError(e) == Diag("Parse", LoaderErrorDisplay(e), 0, "", <<>>)

\* Display of CompileError
CompileErrorDisplay(d) ==
    CASE d.kind = "Parse" -> "Parse error: " \o d.msg
      [] d.kind = "Resolve" -> "Resolution error: " \o d.msg
      [] d.kind = "Type" -> "Type error: " \o d.msg
      [] OTHER -> "Multiple errors occurred"

\* ModuleLoader::resolve_module_path with ModuleResolver::find_module_file
resolve_module_path(ld, name, source_dir) ==
    LET direct_path == join(source_dir, name \o ".fc")
        dir_path == join(join(source_dir, name), "mod.fc")
        src_direct == join(ld.src_dir, name \o ".fc")
        src_dir_path == join(join(ld.src_dir, name), "mod.fc")
        exists(p) == p \in DOMAIN ld.fs.files IN
    CASE exists(direct_path) -> [ok |-> TRUE, path |-> direct_path, dir |-> source_dir]
      [] exists(dir_path) ->
            [ok |-> TRUE, path |-> dir_path, dir |-> join(source_dir, name)]
      [] exists(src_direct) -> [ok |-> TRUE, path |-> src_direct, dir |-> ld.src_dir]
      [] exists(src_dir_path) ->
            [ok |-> TRUE, path |-> src_dir_path, dir |-> join(ld.src_dir, name)]
      [] OTHER ->
            [ok |-> FALSE,
             err |-> LoaderError("ModuleNotFound", name, "", <<direct_path, dir_path>>, "")]

\* ModuleLoader::parse_module
parse_module(source, path) ==
    Let(parse_file(ParserNew(strip_comments(Lex(source)), source)), LAMBDA r :
    IF r.ok THEN [ok |-> TRUE, items |-> r.v]
    ELSE [ok |-> FALSE,
          err |-> LoaderError("Parse", "", path, <<>>, CompileErrorDisplay(r.err[1]))])

Expanded(items, ld) == [ok |-> TRUE, items |-> items, ld |-> ld]
ExpandFailed(err, ld) == [ok |-> FALSE, err |-> err, ld |-> ld]

\* The loader that has not recorded the path.
insert_skipped(ld, path) == ld

\* self.loaded.insert(canonical)
insert_loaded(ld, path) == [ld EXCEPT !.loaded = @ \cup {path}]

\* std::fs::read_to_string(&module_path), when it succeeds
read_to_string(ld, path) == [ld EXCEPT !.reads = Append(@, path)]

RECURSIVE expand_items(_, _, _, _), load_and_expand_module(_, _, _)

\* ModuleLoader::expand_modules
expand_modules(ld, items, source_dir) == expand_items(ld, items, source_dir, <<>>)

\* The item loop of expand_modules; new_items holds the items pushed so far.
expand_items(ld, items, source_dir, new_items) ==
    IF items = <<>> THEN Expanded(new_items, ld)
    ELSE Let(Head(items), LAMBDA item :
         IF item.k = "Mod" /\ ~item.hasBody THEN
            Let(load_and_expand_module(ld, item, source_dir), LAMBDA x :
            IF ~x.ok THEN x
            ELSE expand_items(x.ld, Tail(items), source_dir, new_items \o x.items))
         ELSE IF item.k = "Mod" THEN
            Let(expand_modules(ld, item.items, source_dir), LAMBDA x :
            IF ~x.ok THEN x
            ELSE expand_items(x.ld, Tail(items), source_dir,
                              Append(new_items, [item EXCEPT !.items = x.items])))
         ELSE expand_items(ld, Tail(items), source_dir, Append(new_items, item)))

\* ModuleLoader::load_and_expand_module; canonicalize is the identity on the
\* paths of the model.
load_and_expand_module(ld, mod_decl, source_dir) ==
    Let(resolve_module_path(ld, mod_decl.name, source_dir), LAMBDA rp :
    IF ~rp.ok THEN ExpandFailed(rp.err, ld)
    ELSE IF rp.path \in ld.loaded
    THEN ExpandFailed(LoaderError("CircularImport", mod_decl.name, rp.path, <<>>, ""), ld)
    ELSE IF rp.path \in ld.fs.unreadable
    THEN ExpandFailed(LoaderError("Io", "", rp.path, <<>>, "Permission denied (os error 13)"),
                      insert_loaded(ld, rp.path))
    ELSE IF Len(ld.reads) >= MaxReads
    THEN ExpandFailed(LoaderError("Unbounded", mod_decl.name, rp.path, <<>>, ""), ld)
    ELSE Let(read_to_string(insert_loaded(ld, rp.path), rp.path), LAMBDA ld1 :
         Let(parse_module(ld.fs.files[rp.path], rp.path), LAMBDA ast :
         IF ~ast.ok THEN ExpandFailed(ast.err, ld1)
         ELSE Let(expand_modules(ld1, ast.items, rp.dir), LAMBDA x :
              IF ~x.ok THEN x
              ELSE Expanded(<<[mod_decl EXCEPT !.hasBody = TRUE, !.items = x.items]>>,
                            x.ld)))))

(***************************************************************************)
(* Lower::lower (lower/mod.rs)                                             *)
(***************************************************************************)

RECURSIVE StrLess(_, _), InsertDecl(_, _), SortDecls(_)

\* str::cmp = Less on the texts a and b given as code points (the order of
\* UTF-8 bytes is the order of code points).
StrLess(a, b) ==
    IF b = <<>> THEN FALSE
    ELSE IF a = <<>> THEN TRUE
    ELSE IF Head(a) # Head(b) THEN Head(a) < Head(b)
    ELSE StrLess(Tail(a), Tail(b))

\* decl inserted into the sorted list after every element not greater.
InsertDecl(sorted, decl) ==
    IF sorted = <<>> THEN <<decl>>
    ELSE IF StrLess(Chars[decl.name], Chars[Head(sorted).name])
    THEN <<decl>> \o sorted
    ELSE <<Head(sorted)>> \o InsertDecl(Tail(sorted), decl)

\* The user-defined type definitions left in the order of their declarations.
DeclsAsDeclared(decls) == decls

\* type_defs.sort_by(name): a stable sort.
SortDecls(decls) ==
    IF decls = <<>> THEN <<>>
    ELSE InsertDecl(SortDecls(SubSeq(decls, 1, Len(decls) - 1)), decls[Len(decls)])

(***************************************************************************)
(* The typedefs of the slice, opt and res types of a file.  Type names are *)
(* ASCII texts.  A HashSet is a set; the order in which it is iterated is  *)
(* given by a seed, which the caller does not control.                     *)
(***************************************************************************)

RECURSIVE c_type_to_name(_), collect_types_from_type(_, _),
          collect_types_from_stmt(_, _), collect_types_from_stmts(_, _)

\* Lower::c_type_to_name
c_type_to_name(ty) ==
    CASE ty.k = "Void" -> "void"
      [] ty.k = "Bool" -> "bool"
      [] ty.k = "Int32" -> "int32_t"
      [] ty.k = "Int64" -> "int64_t"
      [] ty.k = "UInt32" -> "uint32_t"
      [] ty.k = "Ptr" -> "ptr_" \o c_type_to_name(ty.kids[1])
      [] ty.k = "ConstPtr" -> "cptr_" \o c_type_to_name(ty.kids[1])
      [] ty.k = "Named" -> ty.s
      [] ty.k = "Slice" -> "slice_" \o c_type_to_name(ty.kids[1])
      [] ty.k = "Opt" -> "opt_" \o c_type_to_name(ty.kids[1])
      [] ty.k = "Res" ->
            "res_" \o c_type_to_name(ty.kids[1]) \o "_" \o c_type_to_name(ty.kids[2])
      [] OTHER -> "arr" \o ToString(ty.n) \o "_" \o c_type_to_name(ty.kids[1])

\* Lower::collect_types_from_type
collect_types_from_type(lw, ty) ==
    CASE ty.k = "Opt" ->
            collect_types_from_type(
                [lw EXCEPT !.opt_types = @ \cup {c_type_to_name(ty.kids[1])}], ty.kids[1])
      [] ty.k = "Res" ->
            collect_types_from_type(
                collect_types_from_type(
                    [lw EXCEPT !.res_types = @ \cup {c_type_to_name(ty.kids[1]) \o "_"
                                                     \o c_type_to_name(ty.kids[2])}],
                    ty.kids[1]),
                ty.kids[2])
      [] ty.k = "Slice" ->
            collect_types_from_type(
                [lw EXCEPT !.slice_types = @ \cup {c_type_to_name(ty.kids[1])}], ty.kids[1])
      [] ty.k \in {"Ptr", "ConstPtr", "Array"} -> collect_types_from_type(lw, ty.kids[1])
      [] OTHER -> lw

\* Lower::collect_types_from_stmt.  The C expressions of the model hold no
\* type except the named type of a compound literal, from which
\* collect_types_from_expr collects nothing.
collect_types_from_stmt(lw, stmt) ==
    CASE stmt.k = "VarDecl" -> collect_types_from_type(lw, stmt.ty[1])
      [] stmt.k = "If" ->
            collect_types_from_stmts(collect_types_from_stmts(lw, stmt.body), stmt.els)
      [] stmt.k \in {"While", "Block"} -> collect_types_from_stmts(lw, stmt.body)
      [] OTHER -> lw

collect_types_from_stmts(lw, stmts) ==
    IF stmts = <<>> THEN lw
    ELSE collect_types_from_stmts(collect_types_from_stmt(lw, Head(stmts)), Tail(stmts))

RECURSIVE collect_types_from_params(_, _), collect_types_from_file(_, _)

collect_types_from_params(lw, params) ==
    IF params = <<>> THEN lw
    ELSE collect_types_from_params(collect_types_from_type(lw, Head(params).ty), Tail(params))

\* Lower::collect_types_from_file over the function definitions fn_defs
collect_types_from_file(lw, fn_defs) ==
    IF fn_defs = <<>> THEN lw
    ELSE collect_types_from_file(
            collect_types_from_stmts(
                collect_types_from_params(
                    collect_types_from_type(lw, Head(fn_defs).return_type),
                    Head(fn_defs).params),
                Head(fn_defs).body),
            Tail(fn_defs))

\* Lower::name_to_c_type
name_to_c_type(name) ==
    CASE name = "void" -> CVoid
      [] name = "bool" -> CT("Bool", "", <<>>, 0)
      [] name = "int32_t" -> CT("Int32", "", <<>>, 0)
      [] name = "int64_t" -> CT("Int64", "", <<>>, 0)
      [] name = "uint32_t" -> CT("UInt32", "", <<>>, 0)
      [] OTHER -> CT("Named", name, <<>>, 0)

\* str::splitn(2, '_'): the text before the first '_' and the text after it,
\* or the text alone when it holds no '_'.
splitn2(text) ==
    IF \A i \in 1..Len(text) : SubSeq(text, i, i) # "_" THEN <<text>>
    ELSE Let(CHOOSE i \in 1..Len(text) :
                /\ SubSeq(text, i, i) = "_"
                /\ \A j \in 1..(i - 1) : SubSeq(text, j, j) # "_", LAMBDA at :
         <<SubSeq(text, 1, at - 1), SubSeq(text, at + 1, Len(text))>>)

\* CDecl::Struct
CStruct(name, fields) == [name |-> name, fields |-> fields]

\* Lower::make_slice_typedef: Some(decl) as <<decl>>.
make_slice_typedef(inner_type_name) ==
    <<CStruct("fc_slice_" \o inner_type_name,
              <<CParam("data", CT("Ptr", "", <<name_to_c_type(inner_type_name)>>, 0)),
                CParam("len", CT("SizeT", "", <<>>, 0))>>)>>

\* Lower::make_opt_typedef
make_opt_typedef(inner_type_name) ==
    <<CStruct("fc_opt_" \o inner_type_name,
              <<CParam("has_value", CT("Bool", "", <<>>, 0)),
                CParam("value", name_to_c_type(inner_type_name))>>)>>

\* Lower::make_res_typedef: None as <<>>.
make_res_typedef(type_name) ==
    Let(splitn2(type_name), LAMBDA parts :
    IF Len(parts) # 2 THEN <<>>
    ELSE <<CStruct("fc_res_" \o type_name,
                   <<CParam("is_ok", CT("Bool", "", <<>>, 0)),
                     CParam("ok", name_to_c_type(parts[1])),
                     CParam("err", name_to_c_type(parts[2]))>>)>>)

\* The slice types that fastc_runtime.h defines.
builtin_slice_types ==
    {"uint8_t", "int8_t", "uint16_t", "int16_t", "uint32_t", "int32_t", "uint64_t",
     "int64_t", "float", "double"}

RECURSIVE insert_typedefs(_, _, _)

\* The loops of generate_opt_res_typedefs: type_defs.insert(0, decl) for the
\* typedef of every name in turn.
insert_typedefs(type_defs, names, kind) ==
    IF names = <<>> THEN type_defs
    ELSE insert_typedefs(
            (CASE kind = "slice" -> make_slice_typedef(Head(names))
               [] kind = "opt" -> make_opt_typedef(Head(names))
               [] OTHER -> make_res_typedef(Head(names))) \o type_defs,
            Tail(names), kind)

\* Lower::generate_opt_res_typedefs: the type definitions of the file.
generate_opt_res_typedefs(lw, c_file, seed) ==
    Let(collect_types_from_file(lw, c_file.fn_defs), LAMBDA used :
    insert_typedefs(
        insert_typedefs(
            insert_typedefs(
                c_file.type_defs,
                sort(SelectSeq(Iter(used.slice_types, seed),
                               LAMBDA t : t \notin builtin_slice_types)),
                "slice"),
            sort(Iter(used.opt_types, seed)), "opt"),
        sort(Iter(used.res_types, seed)), "res"))

\* Lower::lower: the C file, or panicked where the code panics.
lower(items, seed) ==
    Let(lower_items(LowerNew, items, CFile(<<>>, <<>>)), LAMBDA r :
    [panicked |-> r.lw.panicked,
     includes |-> <<"<stdint.h>", "<stddef.h>", "<stdbool.h>", "\"fastc_runtime.h\"">>,
     fn_defs |-> r.c_file.fn_defs,
     type_defs |->
        IF r.lw.panicked THEN <<>>
        ELSE generate_opt_res_typedefs(
                r.lw, CFile(r.c_file.fn_defs, SortDecls(r.c_file.type_defs)), seed)])

(***************************************************************************)
(* Inputs: the sources the entry points are called on, as sequences of     *)
(* lexemes.  f is the function that is run after a compilation.            *)
(***************************************************************************)

FnF(params, ret, body) ==
    <<"fn", "f", "(">> \o params \o <<")", "->", ret, "{">> \o body \o <<"}">>

PX  == <<"x", ":", "i32">>
PXY == <<"x", ":", "i32", ",", "y", ":", "i32">>
PSX == <<"s", ":", "slice", "(", "i32", ")", ",", "x", ":", "i32">>
PP  == <<"p", ":", "raw", "(", "i32", ")">>

DeclG   == <<"fn", "g", "(", ")", "->", "i32", "{", "return", "1", ";", "}">>
UnsafeG == <<"unsafe">> \o DeclG
DeclK   == <<"fn", "k", "(", ")", "->", "i32", "{", "return", "2", ";", "}">>
DeclH1  == <<"fn", "h", "(", "a", ":", "i32", ")", "->", "i32", "{", "return", "a", ";", "}">>
DeclH2  == <<"fn", "h", "(", "a", ":", "i32", ",", "y", ":", "i32", ")", "->", "i32",
             "{", "return", "a", ";", "}">>
StructP == <<"struct", "P", "{", "a", ":", "i32", ",", "}">>
DeclHP  == <<"fn", "h", "(", "a", ":", "P", ",", "y", ":", "i32", ")", "->", "i32",
             "{", "return", "y", ";", "}">>
DeclKS  == <<"fn", "k", "(", "s", ":", "slice", "(", "i32", ")", ")", "->",
             "slice", "(", "i32", ")", "{", "return", "s", ";", "}">>

\* Sources that compile.
SrcAdd      == FnF(PX, "i32", <<"return", "x", "+", "1", ";">>)
SrcDiv      == FnF(PXY, "i32", <<"return", "x", "/", "y", ";">>)
SrcDivCall  == DeclG \o FnF(PX, "i32", <<"return", "x", "/", "g", "(", ")", ";">>)
SrcAddCall  == DeclG \o FnF(PX, "i32", <<"return", "g", "(", ")", "+", "1", ";">>)
SrcAt       == FnF(PSX, "i32", <<"return", "at", "(", "s", ",", "x", ")", ";">>)
SrcAtParen  == FnF(PSX, "i32", <<"return", "at", "(", "(", "s", ")", ",", "x", ")", ";">>)
SrcAtCall   == DeclKS \o FnF(PSX, "i32",
                   <<"return", "at", "(", "k", "(", "s", ")", ",", "x", ")", ";">>)
SrcAtUnsafe == FnF(PSX, "i32",
                   <<"unsafe", "{", "return", "at", "(", "s", ",", "x", ")", ";", "}">>)
SrcUnsafeFn == <<"unsafe">> \o FnF(PXY, "i32", <<"return", "x", "+", "y", ";">>)
SrcAndPure  == DeclG \o FnF(PX, "bool",
                   <<"return", "(", "x", "==", "0", ")", "&&", "(", "g", "(", ")", "==",
                     "1", ")", ";">>)
SrcAndHoist == DeclG \o DeclH1 \o FnF(PX, "bool",
                   <<"return", "(", "x", "==", "0", ")", "&&", "(", "h", "(", "g", "(", ")",
                     ")", "==", "1", ")", ";">>)
SrcOrDiv    == FnF(PXY, "bool",
                   <<"return", "(", "x", "==", "0", ")", "||", "(", "(", "x", "/", "y", ")",
                     "==", "1", ")", ";">>)
SrcArgs     == DeclG \o DeclK \o DeclH2 \o FnF(PX, "i32",
                   <<"return", "h", "(", "g", "(", ")", ",", "k", "(", ")", ")", ";">>)
SrcArgsLit  == StructP \o DeclG \o DeclK \o DeclHP \o FnF(PX, "i32",
                   <<"return", "h", "(", "P", "{", "a", ":", "g", "(", ")", "}", ",",
                     "k", "(", ")", ")", ";">>)
SrcUnsafeCall == UnsafeG \o FnF(PX, "i32",
                   <<"unsafe", "{", "unsafe", "{", "}", "return", "g", "(", ")", ";", "}">>)
SrcDerefOk  == FnF(PP, "i32", <<"unsafe", "{", "return", "deref", "(", "p", ")", ";", "}">>)
SrcLitCall  == StructP \o UnsafeG \o FnF(PX, "i32",
                   <<"let", "y", ":", "P", "=", "P", "{", "a", ":", "g", "(", ")", "}", ";",
                     "return", "x", ";">>)
SrcWhile    == FnF(PX, "i32", <<"while", "(", "true", ")", "{", "}", "return", "x", ";">>)
SrcLoop     == FnF(PXY, "i32",
                   <<"while", "(", "x", "<", "y", ")", "{", "x", "=", "x", "+", "1", ";", "}",
                     "return", "x", ";">>)
\* Loops whose condition holds an addition and a division.
SrcLoopSum  == FnF(PXY, "i32",
                   <<"while", "(", "(", "x", "+", "1", ")", "<=", "y", ")", "{", "x", "=", "x", "+", "1", ";",
                     "}", "return", "x", ";">>)
SrcLoopDiv  == FnF(PXY, "i32",
                   <<"while", "(", "x", "<", "(", "1", "/", "y", ")", ")", "{", "y", "=", "y", "-", "1", ";",
                     "}", "return", "x", ";">>)
SrcMod      == <<"mod", "m", ";">> \o FnF(PX, "i32", <<"return", "x", ";">>)
SrcDiamond  == <<"mod", "m", ";", "mod", "k", ";">> \o FnF(PX, "i32", <<"return", "x", ";">>)
SrcComment  == <<"// c", "\n">> \o FnF(PX, "i32", <<"/* c */", "return", "x", ";">>)
SrcEmpty    == <<>>
StructQ     == <<"struct", "Q", "{", "a", ":", "P", ",", "}">>
SrcStructs  == StructQ \o StructP \o FnF(PX, "i32", <<"return", "x", ";">>)
SrcOpts     == StructP
               \o FnF(<<"a", ":", "opt", "(", "i32", ")", ",", "b", ":", "opt", "(", "bool", ")",
                        ",", "c", ":", "slice", "(", "bool", ")", ",",
                        "d", ":", "slice", "(", "P", ")">>,
                      "i32", <<"return", "1", ";">>)
SrcRes      == FnF(<<"a", ":", "res", "(", "i32", ",", "bool", ")">>, "i32",
                   <<"return", "1", ";">>)
SrcOptPtr   == FnF(<<"a", ":", "opt", "(", "raw", "(", "i32", ")", ")">>, "i32",
                   <<"return", "1", ";">>)

\* A function named like an allocator, called as a statement's expression
\* and inside one.
DeclMalloc  == <<"fn", "malloc", "(", ")", "->", "i32", "{", "return", "1", ";", "}">>
SrcAlloc    == DeclMalloc \o FnF(PX, "i32", <<"return", "malloc", "(", ")", ";">>)
SrcAllocArg == DeclMalloc \o FnF(PX, "i32", <<"return", "x", "+", "malloc", "(", ")", ";">>)

\* Functions written over several lines.
SrcLines2     == FnF(PX, "i32", <<"\n", "x", "=", "x", ";", "\n", "return", "x", ";", "\n">>)
SrcLines3     == FnF(PX, "i32", <<"\n", "x", "=", "x", ";", "\n", "x", "=", "x", ";", "\n",
                                   "return", "x", ";", "\n">>)
SrcLinesLine  == FnF(PX, "i32", <<"\n", "// c", "\n", "// c", "\n", "return", "x", ";", "\n">>)
SrcLinesBlock == FnF(PX, "i32", <<"\n", "/* c */", "\n", "/* c */", "\n", "return", "x", ";",
                                   "\n">>)

\* Functions that call themselves or one another.
DeclRec     == <<"fn", "g", "(", ")", "->", "i32", "{", "return", "g", "(", ")", ";", "}">>
DeclGK      == <<"fn", "g", "(", ")", "->", "i32", "{", "return", "k", "(", ")", ";", "}">>
DeclKH      == <<"fn", "k", "(", ")", "->", "i32", "{", "return", "h", "(", ")", ";", "}">>
DeclKG      == <<"fn", "k", "(", ")", "->", "i32", "{", "return", "g", "(", ")", ";", "}">>
\* A module whose function k calls the unsafe g outside an unsafe block.
SrcModUnsafeCall == <<"mod", "m", "{">> \o UnsafeG \o DeclKG \o <<"}">>
                    \o FnF(PX, "i32", <<"return", "x", ";">>)
DeclHG      == <<"fn", "h", "(", ")", "->", "i32", "{", "return", "1", "+", "g", "(", ")", ";",
                 "}">>
SrcSelfRec  == DeclRec \o FnF(PX, "i32", <<"return", "x", ";">>)
SrcMutual   == DeclGK \o DeclKG \o FnF(PX, "i32", <<"return", "g", "(", ")", ";">>)
SrcCycle3   == DeclGK \o DeclKH \o DeclHG \o FnF(PX, "i32", <<"return", "x", ";">>)

\* Enums and switches over them; h takes the scrutinee.
EnumQ       == <<"enum", "Q", "{", "a", ",", "b", "}">>
EnumP       == <<"enum", "P", "{", "a", "}">>
CaseOf(value, n) == <<"case">> \o value \o <<":", "return", n, ";">>
DeclSwitch(ty, arms) ==
    <<"fn", "h", "(", "c", ":", ty, ")", "->", "i32", "{", "switch", "(", "c", ")", "{">>
    \o arms \o <<"}", "return", "0", ";", "}">>
FnId        == FnF(PX, "i32", <<"return", "x", ";">>)
SrcSwitchAll     == EnumQ \o DeclSwitch("Q", CaseOf(<<"Q_a">>, "1") \o CaseOf(<<"Q_b">>, "2")) \o FnId
SrcSwitchMissing == EnumQ \o DeclSwitch("Q", CaseOf(<<"Q_a">>, "1")) \o FnId
SrcSwitchNone    == EnumQ \o DeclSwitch("Q", <<>>) \o FnId
SrcSwitchDefault == EnumQ \o DeclSwitch("Q", CaseOf(<<"Q_a">>, "1")
                                             \o <<"default", ":", "return", "2", ";">>)
                    \o FnId
SrcSwitchParen   == EnumQ \o DeclSwitch("Q", CaseOf(<<"(", "Q_a", ")">>, "1")
                                             \o CaseOf(<<"Q_b">>, "2")) \o FnId
SrcSwitchBool    == DeclSwitch("bool", CaseOf(<<"1">>, "1")) \o FnId
SrcSwitchOther   == EnumQ \o EnumP
                    \o DeclSwitch("Q", CaseOf(<<"Q_a">>, "1") \o CaseOf(<<"Q_b">>, "2")
                                       \o CaseOf(<<"P_a">>, "3")) \o FnId
SrcSwitchInt     == DeclSwitch("i32", CaseOf(<<"1">>, "1")) \o FnId
SrcSwitchInMod   == <<"mod", "m", "{">> \o EnumQ \o <<"}">>
                    \o DeclSwitch("Q", CaseOf(<<"Q_a">>, "1")) \o FnId

\* Sources that make the lowerer or the resolver panic.
SrcArrZero  == FnF(<<"a", ":", "arr", "(", "i32", ",", "4", "/", "0", ")">>, "i32",
                   <<"return", "1", ";">>)
SrcArrNeg   == FnF(<<"a", ":", "arr", "(", "i32", ",", "-", "1", ")">>, "i32",
                   <<"return", "1", ";">>)
SrcNonAscii == FnF(PX, "i32", <<"return", "é", ";">>)

\* Sources that a phase rejects.
SrcChained     == FnF(PX, "i32", <<"return", "1", "+", "2", "+", "3", ";">>)
SrcUnsafeItem  == <<"mod", "m", ";", "// c", "\n", "unsafe", "struct">>
SrcNoItem      == <<"é">>
SrcUndefined   == FnF(PX, "i32", <<"return", "fo", ";">>)
SrcCallOutside == UnsafeG \o FnF(PX, "i32", <<"return", "g", "(", ")", ";">>)
SrcCallAfter   == UnsafeG \o FnF(PX, "i32",
                      <<"unsafe", "{", "}", "return", "g", "(", ")", ";">>)
SrcDerefOutside == FnF(PP, "i32", <<"return", "deref", "(", "p", ")", ";">>)
SrcTwoErrors   == FnF(PX, "i32", <<"let", "y", ":", "bool", "=", "x", ";", "return", "true", ";">>)

\* Declarations of a name that another scope holds, or that the same scope
\* holds; references before and after the declaration; for loops.
LetY(value)     == <<"let", "y", ":", "i32", "=", value, ";">>
ForY(body)      == <<"for", "(", "let", "y", ":", "i32", "=", "0", ";", "y", "<", "x", ";",
                     "y", "=", "y", "+", "1", ")", "{">> \o body \o <<"}">>
SrcShadowBlock  == FnF(PX, "i32", LetY("1") \o <<"{">> \o LetY("2") \o <<"}", "return", "y", ";">>)
SrcShadowParam  == FnF(PX, "i32", <<"let", "x", ":", "i32", "=", "1", ";", "return", "x", ";">>)
SrcRedefine     == FnF(PX, "i32", LetY("1") \o LetY("2") \o <<"return", "y", ";">>)
SrcRedefineFn   == DeclG \o DeclG \o FnF(PX, "i32", <<"return", "x", ";">>)
SrcRedefineParam == FnF(<<"x", ":", "i32", ",", "x", ":", "i32">>, "i32", <<"return", "x", ";">>)
SrcFor          == FnF(PX, "i32", ForY(<<"x", "=", "y", ";">>) \o <<"return", "x", ";">>)
SrcForShadow    == FnF(PX, "i32", ForY(LetY("1")) \o <<"return", "x", ";">>)
SrcForOuter     == FnF(PX, "i32", LetY("1") \o ForY(<<>>) \o <<"return", "y", ";">>)
SrcForAfter     == FnF(PX, "i32", ForY(<<>>) \o <<"return", "y", ";">>)
SrcForever      == FnF(PX, "i32", <<"for", "(", ";", ";", ")", "{", "break", ";", "}",
                                     "return", "x", ";">>)
\* Extern blocks: g is declared without and with unsafe, and is called
\* outside and inside an unsafe block.
ExternG(with_unsafe) ==
    <<"extern", "\"C\"", "{">> \o (IF with_unsafe THEN <<"unsafe">> ELSE <<>>)
    \o <<"fn", "g", "(", ")", "->", "i32", ";", "}">>
SrcExternCall       == ExternG(FALSE) \o FnF(PX, "i32", <<"return", "g", "(", ")", ";">>)
SrcExternUnsafeCall == ExternG(TRUE) \o FnF(PX, "i32", <<"return", "g", "(", ")", ";">>)
SrcExternInUnsafe   == ExternG(FALSE)
                       \o FnF(PX, "i32", <<"unsafe", "{", "return", "g", "(", ")", ";", "}">>)
SrcExternOpt        == <<"extern", "\"C\"", "{", "fn", "g", "(", "a", ":", "opt", "(", "i32",
                         ")", ")", "->", "i32", ";", "}">>
                       \o FnF(PX, "i32", <<"return", "x", ";">>)
SrcContinue     == FnF(PXY, "i32",
                       <<"while", "(", "x", "<", "y", ")", "{", "x", "=", "x", "+", "1", ";",
                         "continue", ";", "}", "return", "x", ";">>)
SrcDefer        == FnF(PX, "i32", <<"defer", "{", "x", "=", "1", ";", "}", "return", "x", ";">>)
SrcDiscard      == FnF(PX, "i32", <<"discard", "(", "x", ")", ";", "return", "x", ";">>)
SrcUseBefore    == FnF(PX, "i32", <<"x", "=", "y", ";">> \o LetY("1") \o <<"return", "x", ";">>)
SrcUseInit      == FnF(PX, "i32", LetY("y") \o <<"return", "x", ";">>)
SrcUseAfter     == FnF(PX, "i32", <<"{">> \o LetY("1") \o <<"}", "return", "y", ";">>)
SrcUseNested    == FnF(PX, "i32", LetY("1") \o <<"{", "return", "y", ";", "}", "return", "x", ";">>)

\* Casts: h casts its parameter of the type from to the type to.
TyI32  == <<"i32">>
TyF64  == <<"f64">>
TyBool == <<"bool">>
TyRef  == <<"ref", "(", "i32", ")">>
TyMref == <<"mref", "(", "i32", ")">>
TyRaw  == <<"raw", "(", "i32", ")">>
TyRawm == <<"rawm", "(", "i32", ")">>
SrcCast(from, to) ==
    <<"fn", "h", "(", "a", ":">> \o from \o <<")", "->", "i32", "{", "let", "b", ":">> \o to
    \o <<"=", "cast", "(">> \o to \o <<",", "a", ")", ";", "return", "1", ";", "}">>
    \o FnF(PX, "i32", <<"return", "x", ";">>)
CastPairs ==
    {<<TyI32, TyF64>>, <<TyF64, TyI32>>, <<TyI32, TyBool>>, <<TyBool, TyI32>>,
     <<TyRef, TyRaw>>, <<TyRaw, TyRef>>, <<TyMref, TyRawm>>, <<TyRawm, TyMref>>,
     <<TyRaw, TyRaw>>, <<TyRawm, TyRawm>>, <<TyRef, TyRawm>>, <<TyRaw, TyRawm>>,
     <<TyRef, TyRef>>, <<TyI32, TyRaw>>, <<TyRaw, TyI32>>, <<TyMref, TyRaw>>}
CastSources == {SrcCast(pair[1], pair[2]) : pair \in CastPairs}

\* Binary expressions: h applies the operator to its two parameters.
TyI64 == <<"i64">>
TyP   == <<"P">>
SrcBinary(left, right, op) ==
    StructP
    \o <<"fn", "h", "(", "a", ":">> \o left \o <<",", "b", ":">> \o right \o <<")", "->">>
    \o left \o <<"{", "return", "a", op, "b", ";", "}">>
    \o FnF(PX, "i32", <<"return", "x", ";">>)
BinarySources ==
    {SrcBinary(TyI32, TyI32, "+"), SrcBinary(TyF64, TyF64, "*"), SrcBinary(TyI32, TyF64, "+"),
     SrcBinary(TyBool, TyBool, "+"), SrcBinary(TyRaw, TyRaw, "-"), SrcBinary(TyP, TyP, "+"),
     SrcBinary(TyI32, TyI32, "%"), SrcBinary(TyI32, TyI32, "&"), SrcBinary(TyI32, TyI64, "|"),
     SrcBinary(TyF64, TyF64, "^"), SrcBinary(TyBool, TyBool, "&"),
     SrcBinary(TyI32, TyI32, "<<"), SrcBinary(TyRaw, TyRaw, ">>")}

Sources ==
    {SrcAdd, SrcDiv, SrcDivCall, SrcAddCall, SrcAt, SrcAtParen, SrcAtCall, SrcAtUnsafe,
     SrcUnsafeFn, SrcAndPure, SrcAndHoist, SrcOrDiv, SrcArgs, SrcArgsLit, SrcUnsafeCall,
     SrcDerefOk, SrcLitCall, SrcWhile, SrcLoop, SrcMod, SrcDiamond, SrcComment, SrcEmpty,
     SrcStructs, SrcOpts, SrcRes, SrcOptPtr, SrcAlloc, SrcAllocArg,
     SrcSelfRec, SrcMutual, SrcCycle3, SrcLines2, SrcLines3, SrcLinesLine, SrcLinesBlock,
     SrcSwitchAll, SrcSwitchMissing, SrcSwitchNone, SrcSwitchDefault, SrcSwitchParen,
     SrcSwitchOther, SrcSwitchInt, SrcSwitchBool, SrcSwitchInMod,
     SrcArrZero, SrcArrNeg, SrcNonAscii,
     SrcChained, SrcUnsafeItem, SrcNoItem, SrcUndefined, SrcCallOutside, SrcCallAfter,
     SrcDerefOutside, SrcTwoErrors,
     SrcShadowBlock, SrcShadowParam, SrcRedefine, SrcRedefineFn, SrcRedefineParam,
     SrcFor, SrcForShadow, SrcForOuter, SrcForAfter, SrcForever,
     SrcUseBefore, SrcUseInit, SrcUseAfter, SrcUseNested, SrcModUnsafeCall,
     SrcContinue, SrcDefer, SrcDiscard, SrcLoopSum, SrcLoopDiv,
     SrcExternCall, SrcExternUnsafeCall, SrcExternInUnsafe, SrcExternOpt}
    \cup CastSources \cup BinarySources

\* File systems: whether fastc.toml is found above the source file, and the
\* module files next to it.
FsNone     == [project |-> FALSE, files |-> <<>>, unreadable |-> {}]
FsEmpty    == [project |-> TRUE, files |-> <<>>, unreadable |-> {}]
FsModule   == [project |-> TRUE, files |-> [q \in {"m.fc"} |-> DeclG], unreadable |-> {}]
FsInSrc    == [project |-> TRUE, files |-> [q \in {"src/m/mod.fc"} |-> DeclK],
               unreadable |-> {}]
FsCircular == [project |-> TRUE, files |-> [q \in {"m.fc"} |-> <<"mod", "m", ";">>],
               unreadable |-> {}]
FsBroken   == [project |-> TRUE, files |-> [q \in {"m.fc"} |-> SrcChained],
               unreadable |-> {}]
FsLocked   == [project |-> TRUE, files |-> [q \in {"m.fc"} |-> DeclG],
               unreadable |-> {"m.fc"}]
\* A module longer than the file that imports it, with an undefined name.
FsLong     == [project |-> TRUE,
               files |-> [q \in {"m.fc"} |-> DeclG \o DeclK
                             \o <<"fn", "h", "(", "a", ":", "i32", ")", "->", "i32", "{",
                                  "return", "fo", ";", "}">>],
               unreadable |-> {}]

\* Modules that import one another, and a module that imports another.
FsCycle2   == [project |-> TRUE,
               files |-> [q \in {"m.fc", "k.fc"} |->
                             IF q = "m.fc" THEN <<"mod", "k", ";">> ELSE <<"mod", "m", ";">>],
               unreadable |-> {}]
FsNested   == [project |-> TRUE,
               files |-> [q \in {"m.fc", "k.fc"} |->
                             IF q = "m.fc" THEN <<"mod", "k", ";">> \o DeclG ELSE DeclK],
               unreadable |-> {}]

\* Two module files that import the same third one.
FsDiamond  == [project |-> TRUE,
               files |-> [q \in {"m.fc", "k.fc", "s.fc"} |->
                             IF q = "m.fc" THEN <<"mod", "s", ";">> \o DeclG
                             ELSE IF q = "k.fc" THEN <<"mod", "s", ";">> \o DeclK
                             ELSE DeclH1],
               unreadable |-> {}]

\* The source file SrcMod is itself the module file it imports.
FsSelf     == [project |-> TRUE, files |-> [q \in {"m.fc"} |-> SrcMod], unreadable |-> {}]

\* A module with a function that calls itself.
FsRec      == [project |-> TRUE, files |-> [q \in {"m.fc"} |-> DeclRec], unreadable |-> {}]

\* A module file whose function k calls the unsafe g outside an unsafe block.
FsUnsafeCall == [project |-> TRUE, files |-> [q \in {"m.fc"} |-> UnsafeG \o DeclKG],
                 unreadable |-> {}]

FileSystems ==
    {FsNone, FsEmpty, FsModule, FsInSrc, FsCircular, FsCycle2, FsSelf, FsNested, FsDiamond, FsBroken,
     FsLocked, FsLong, FsRec, FsUnsafeCall}

(***************************************************************************)
(* Execution of C.  A machine m holds the variables env, the events of the *)
(* run in trace, the values the called functions will return in oracle,    *)
(* the status (run, ret, trap, ub, fuel) and the iterations left in fuel.  *)
(* A call of a function other than fc_trap and the overflow builtins is an *)
(* event: its result is the next value of the oracle.  Operands and        *)
(* arguments are evaluated left to right.  checked = TRUE gives the        *)
(* meaning of safe FastC to division: a zero divisor traps.                *)
(***************************************************************************)

\* The seeds of the iteration order of a hash set.
MaxSeed == 5
Seeds == 0..MaxSeed

MaxVal == 1
MaxOracle == 2
Fuel == 3

Vals == 0..MaxVal

Oracles == [1..MaxOracle -> Vals]

Machine(env, oracle, checked) ==
    [env |-> env, trace |-> <<>>, oracle |-> oracle, status |-> "run", ret |-> 0,
     fuel |-> Fuel, checked |-> checked]

Val(v, m) == [v |-> v, m |-> m]

\* The variable name bound to v.
Bind(env, name, v) == [n \in DOMAIN env \cup {name} |-> IF n = name THEN v ELSE env[n]]

Raise(m, event, status) == [m EXCEPT !.trace = Append(@, event), !.status = status]

\* int32_t arithmetic: the value of the operator on two values.
Arith(op, a, b) ==
    CASE op = "Add" -> a + b
      [] op = "Sub" -> a - b
      [] op = "Mul" -> a * b
      [] op = "Div" -> IF (a >= 0) = (b > 0) THEN a \div b ELSE -((-a) \div b)
      [] op = "Mod" -> IF a >= 0 THEN a % b ELSE -((-a) % b)
      [] op = "Eq" -> IF a = b THEN 1 ELSE 0
      [] op = "Ne" -> IF a # b THEN 1 ELSE 0
      [] op = "Lt" -> IF a < b THEN 1 ELSE 0
      [] op = "Le" -> IF a <= b THEN 1 ELSE 0
      [] op = "Gt" -> IF a > b THEN 1 ELSE 0
      [] OTHER -> IF a >= b THEN 1 ELSE 0

\* Whether n is a value of int32_t.
InInt32(n) == -2147483647 - 1 <= n /\ n <= 2147483647

OverflowBuiltins ==
    {"__builtin_add_overflow", "__builtin_sub_overflow", "__builtin_mul_overflow"}

BuiltinOp(name) ==
    CASE name = "__builtin_add_overflow" -> "Add"
      [] name = "__builtin_sub_overflow" -> "Sub"
      [] OTHER -> "Mul"

RECURSIVE EvalC(_, _), EvalSeq(_, _, _), ExecC(_, _), ExecBlock(_, _)

\* The expressions es evaluated in order; v is the sequence of their values.
EvalSeq(es, m, acc) ==
    IF es = <<>> THEN Val(acc, m)
    ELSE Let(EvalC(Head(es), m), LAMBDA r :
                                        EvalSeq(Tail(es), r.m, Append(acc, r.v)))

EvalC(e, m) ==
    IF m.status # "run" THEN Val(0, m)
    ELSE CASE e.k \in {"IntLit", "BoolLit"} -> Val(e.n, m)
      [] e.k = "Ident" -> Val(IF e.s \in DOMAIN m.env THEN m.env[e.s] ELSE 0, m)
      [] e.k \in {"Paren", "AddrOf", "Deref"} -> EvalC(e.kids[1], m)
      [] e.k = "Unary" ->
            Let(EvalC(e.kids[1], m), LAMBDA o :
            Val(IF e.s = "Neg" THEN -o.v ELSE IF o.v = 0 THEN 1 ELSE 0, o.m))
      [] e.k = "Binary" /\ e.s \in {"And", "Or"} ->
            Let(EvalC(e.kids[1], m), LAMBDA l :
            IF (e.s = "And") = (l.v = 0) THEN Val(IF e.s = "And" THEN 0 ELSE 1, l.m)
            ELSE Let(EvalC(e.kids[2], l.m), LAMBDA r :
                                                   Val(IF r.v = 0 THEN 0 ELSE 1, r.m)))
      [] e.k = "Binary" ->
            Let(EvalC(e.kids[1], m), LAMBDA l :
                Let(EvalC(e.kids[2], l.m), LAMBDA r :
            IF r.m.status # "run" THEN Val(0, r.m)
            ELSE IF e.s \in {"Div", "Mod"} /\ r.v = 0
            THEN Val(0, IF m.checked THEN Raise(r.m, <<"trap">>, "trap")
                        ELSE Raise(r.m, <<"divzero">>, "ub"))
            ELSE Val(Arith(e.s, l.v, r.v), r.m)))
      [] e.k = "Call" /\ e.kids[1].s = "fc_trap" -> Val(0, Raise(m, <<"trap">>, "trap"))
      [] e.k = "Call" /\ e.kids[1].s \in OverflowBuiltins ->
            Let(EvalSeq(<<e.kids[2], e.kids[3]>>, m, <<>>), LAMBDA a :
                Let(Arith(BuiltinOp(e.kids[1].s), a.v[1], a.v[2]), LAMBDA n :
            IF a.m.status # "run" THEN Val(0, a.m)
            ELSE Val(IF InInt32(n) THEN 0 ELSE 1,
                     [a.m EXCEPT !.env = Bind(@, e.kids[4].kids[1].s, n)])))
      [] e.k = "Call" ->
            Let(EvalSeq(Tail(e.kids), m, <<>>), LAMBDA a :
            IF a.m.status # "run" THEN Val(0, a.m)
            ELSE Val(IF a.m.oracle = <<>> THEN 0 ELSE Head(a.m.oracle),
                     [a.m EXCEPT !.trace = Append(@, <<"call", e.kids[1].s>>),
                                 !.oracle = IF @ = <<>> THEN @ ELSE Tail(@)]))
      [] e.k = "Field" ->
            IF e.kids[1].k = "Ident"
            THEN Val(IF e.kids[1].s \o "." \o e.s \in DOMAIN m.env
                     THEN m.env[e.kids[1].s \o "." \o e.s] ELSE 0, m)
            ELSE Val(0, EvalC(e.kids[1], m).m)
      [] e.k = "Index" ->
            Let(EvalSeq(e.kids, m, <<>>), LAMBDA r :
                Let(     IF e.kids[1].k = "Ident" THEN e.kids[1].s
                         ELSE IF e.kids[1].k = "Field" /\ e.kids[1].kids[1].k = "Ident"
                         THEN e.kids[1].kids[1].s ELSE "", LAMBDA slice :
                Let(slice \o ".len", LAMBDA len :
            IF r.m.status = "run" /\ len \in DOMAIN m.env /\ r.v[2] >= m.env[len]
            THEN Val(0, IF m.checked THEN Raise(r.m, <<"trap">>, "trap")
                        ELSE Raise(r.m, <<"oob">>, "ub"))
            ELSE Val(0, r.m))))
      [] OTHER -> Val(0, EvalSeq(e.kids, m, <<>>).m)

ExecBlock(stmts, m) ==
    IF stmts = <<>> \/ m.status # "run" THEN m
    ELSE ExecBlock(Tail(stmts), ExecC(Head(stmts), m))

ExecC(s, m) ==
    IF m.status # "run" THEN m
    ELSE CASE s.k = "VarDecl" ->
            IF s.e = <<>> THEN [m EXCEPT !.env = Bind(@, s.s, 0)]
            ELSE Let(EvalC(s.e[1], m), LAMBDA r :
                                              [r.m EXCEPT !.env = Bind(@, s.s, r.v)])
      [] s.k = "Assign" ->
            Let(EvalC(s.e[2], EvalC(s.e[1], m).m), LAMBDA r :
            IF s.e[1].k = "Ident" /\ r.m.status = "run"
            THEN [r.m EXCEPT !.env = Bind(@, s.e[1].s, r.v)] ELSE r.m)
      [] s.k = "If" ->
            Let(EvalC(s.e[1], m), LAMBDA c :
            IF c.v # 0 THEN ExecBlock(s.body, c.m) ELSE ExecBlock(s.els, c.m))
      [] s.k = "While" ->
            Let(EvalC(s.e[1], m), LAMBDA c :
            IF c.m.status # "run" \/ c.v = 0 THEN c.m
            ELSE IF c.m.fuel = 0 THEN [c.m EXCEPT !.status = "fuel"]
            ELSE ExecC(s, ExecBlock(s.body, [c.m EXCEPT !.fuel = @ - 1])))
      [] s.k = "Return" ->
            IF s.e = <<>> THEN [m EXCEPT !.status = "ret"]
            ELSE Let(EvalC(s.e[1], m), LAMBDA r :
                 IF r.m.status # "run" THEN r.m
                 ELSE [r.m EXCEPT !.status = "ret", !.ret = r.v])
      [] s.k = "Expr" -> EvalC(s.e[1], m).m
      [] OTHER -> ExecBlock(s.body, m)

(***************************************************************************)
(* The meaning of a FastC function: its statements read as C, operator by  *)
(* operator, with no statement moved.                                      *)
(***************************************************************************)

RECURSIVE DirectExpr(_), DirectStmt(_)

DirectExpr(expr) ==
    Let([i \in 1..Len(expr.kids) |-> DirectExpr(expr.kids[i])], LAMBDA kids :
    CASE expr.k \in {"IntLit", "BoolLit", "Ident", "Paren", "Unary", "Call", "Field", "Deref"} ->
            CE(expr.k, expr.s, expr.n, kids, <<>>)
      [] expr.k = "Binary" -> CE("Binary", IF expr.s = "Rem" THEN "Mod" ELSE expr.s, 0, kids, <<>>)
      [] expr.k = "Addr" -> CE("AddrOf", "", 0, kids, <<>>)
      [] expr.k = "At" -> CE("Index", "", 0, kids, <<>>)
      [] OTHER -> CE("Compound", expr.s, 0, kids, expr.fs))

DirectStmt(stmt) ==
    LET block(b) == [i \in 1..Len(b) |-> DirectStmt(b[i])] IN
    CASE stmt.k = "Let" -> CS("VarDecl", stmt.s, <<>>, <<DirectExpr(stmt.e[1])>>, <<>>, <<>>, FALSE)
      [] stmt.k \in {"Assign", "Return", "Expr"} ->
            CS(stmt.k, "", <<>>, [i \in 1..Len(stmt.e) |-> DirectExpr(stmt.e[i])],
               <<>>, <<>>, FALSE)
      [] stmt.k \in {"If", "While"} ->
            CS(stmt.k, "", <<>>, <<DirectExpr(stmt.e[1])>>, block(stmt.body),
               block(stmt.els), stmt.hasElse # "none")
      [] OTHER -> CS("Block", "", <<>>, <<>>, block(stmt.body), <<>>, FALSE)

(***************************************************************************)
(* Driver (driver.rs).  A phase yields a PhaseOk with its value, a         *)
(* PhaseErr with the CompileError that `?` returns to the caller, or       *)
(* PhasePanic where the phase panics.                                      *)
(***************************************************************************)

PhaseOk(v)    == [st |-> "ok", v |-> v, err |-> <<>>]
PhaseErr(d)   == [st |-> "err", v |-> <<>>, err |-> <<d>>]
PhasePanic    == [st |-> "panic", v |-> <<>>, err |-> <<>>]

\* Phase 1: Lexer::new(source), strip_comments(lexer.collect())
LexPhase(src) == strip_comments(Lex(src))

\* ParsePhase with the diagnostic moved to the start of the file.
ParsePhaseAtStart(toks, src) ==
    Let(parse_file(ParserNew(toks, src)), LAMBDA r :
    IF r.ok THEN PhaseOk(r.v) ELSE PhaseErr([r.err[1] EXCEPT !.span = 0]))

\* Phase 2: Parser::new(&tokens, source, filename).parse_file()?
ParsePhase(toks, src) ==
    Let(parse_file(ParserNew(toks, src)), LAMBDA r :
    IF r.ok THEN PhaseOk(r.v) ELSE PhaseErr(r.err[1]))

\* Phase 2.5: find_project_root and ModuleLoader::expand_modules(..)?  The
\* source file lies in the directory of fastc.toml.
ExpandPhase(files, items) ==
    IF ~files.project THEN PhaseOk(items)
    ELSE Let(expand_modules(ModuleLoaderNew(files, ""), items, ""), LAMBDA x :
         IF x.ok THEN PhaseOk(x.items)
         ELSE IF x.err.variant = "Unbounded" THEN PhasePanic
         ELSE PhaseErr(LoaderErrorToCompileError(x.err)))

\* Phase 3: Resolver::new(source), resolve(&ast)?, into_symbols()
ResolvePhase(src, items) ==
    Let(resolve(src, items), LAMBDA rs :
    IF rs.panicked THEN PhasePanic
    ELSE IF rs.errors # <<>> THEN PhaseErr(multiple(rs.errors))
    ELSE PhaseOk(rs.symbols))

\* Phase 4: TypeChecker::new(source, symbols), check(&ast)?
TypeCheckPhase(src, syms, items, seed) ==
    Let(typecheck(src, syms, items, seed), LAMBDA tc :
    IF tc.errors # <<>> THEN PhaseErr(multiple(tc.errors)) ELSE PhaseOk(<<>>))

\* Phase 4.5: P10Checker::new(p10_config).check_and_report(&ast, source)?
P10Phase(config, items, src, seed) ==
    Let(check_and_report(config, items, src, seed), LAMBDA errors :
    IF errors # <<>> THEN PhaseErr(multiple(errors)) ELSE PhaseOk(<<>>))

\* Phase 5: Lower::new().lower(&ast)
LowerPhase(items, seed) ==
    Let(lower(items, seed), LAMBDA c :
    IF c.panicked THEN PhasePanic ELSE PhaseOk(c))

\* The P10Config an entry point runs with: check, compile and
\* compile_with_options pass P10Config::standard().
Entries ==
    {"parse", "check", "check_with_p10", "compile", "compile_with_options",
     "compile_with_p10"}

CompileEntries == {"compile", "compile_with_options", "compile_with_p10"}

VARIABLES source, entry, p10_config, fs, pc, tokens, ast, symbols, c_ast, result,
          ran, failed, run

vars == <<source, entry, p10_config, fs, pc, tokens, ast, symbols, c_ast, result,
          ran, failed, run>>

NotRun == [done |-> FALSE, a |-> 0, b |-> 0, oracle |-> <<>>,
           lowered |-> <<>>, direct |-> <<>>]

Init ==
    /\ source \in Sources
    /\ entry \in Entries
    /\ p10_config \in {P10Standard, P10SafetyCritical, P10Relaxed, P10Tight}
    /\ entry \in {"check_with_p10", "compile_with_p10"} \/ p10_config = P10Standard
    /\ fs \in FileSystems
    /\ fs \in {FsNone, FsModule} \/ source \in {SrcMod, SrcDiamond, SrcUnsafeItem}
    /\ pc = "lex"
    /\ tokens = <<>>
    /\ ast = <<>>
    /\ symbols = SymbolTableNew
    /\ c_ast = <<>>
    /\ result = [status |-> "running", err |-> <<>>]
    /\ ran = <<>>
    /\ failed = ""
    /\ run = NotRun

\* The entry point returns: with the error of the phase, or by a panic.
Finish(phase, r) ==
    /\ pc' = "done"
    /\ result' = [status |-> r.st, err |-> r.err]
    /\ failed' = IF r.st = "ok" THEN "" ELSE phase

Continue(next) ==
    /\ pc' = next
    /\ UNCHANGED <<result, failed>>

Tokenize ==
    /\ pc = "lex"
    /\ tokens' = LexPhase(source)
    /\ ran' = Append(ran, "lex")
    /\ Continue("parse")
    /\ UNCHANGED <<source, entry, p10_config, fs, ast, symbols, c_ast, run>>

ParseFile ==
    /\ pc = "parse"
    /\ LET r == ParsePhase(tokens, source) IN
        /\ ast' = r.v
        /\ IF r.st = "ok" /\ entry # "parse" THEN Continue("expand")
           ELSE Finish("parse", r)
    /\ ran' = Append(ran, "parse")
    /\ UNCHANGED <<source, entry, p10_config, fs, tokens, symbols, c_ast, run>>

ExpandModules ==
    /\ pc = "expand"
    /\ LET r == ExpandPhase(fs, ast) IN
        /\ ast' = IF r.st = "ok" THEN r.v ELSE <<>>
        /\ IF r.st = "ok" THEN Continue("resolve") ELSE Finish("expand", r)
    /\ ran' = Append(ran, "expand")
    /\ UNCHANGED <<source, entry, p10_config, fs, tokens, symbols, c_ast, run>>

ResolveNames ==
    /\ pc = "resolve"
    /\ LET r == ResolvePhase(source, ast) IN
        /\ symbols' = IF r.st = "ok" THEN r.v ELSE symbols
        /\ IF r.st = "ok" THEN Continue("typecheck") ELSE Finish("resolve", r)
    /\ ran' = Append(ran, "resolve")
    /\ UNCHANGED <<source, entry, p10_config, fs, tokens, ast, c_ast, run>>

TypeCheck ==
    /\ pc = "typecheck"
    /\ \E seed \in Seeds :
        LET r == TypeCheckPhase(source, symbols, ast, seed) IN
        IF r.st = "ok" THEN Continue("p10") ELSE Finish("typecheck", r)
    /\ ran' = Append(ran, "typecheck")
    /\ UNCHANGED <<source, entry, p10_config, fs, tokens, ast, symbols, c_ast, run>>

P10Check ==
    /\ pc = "p10"
    /\ \E seed \in Seeds :
        LET r == P10Phase(p10_config, ast, source, seed) IN
        IF r.st = "ok" /\ entry \in CompileEntries THEN Continue("lower")
        ELSE Finish("p10", r)
    /\ ran' = Append(ran, "p10")
    /\ UNCHANGED <<source, entry, p10_config, fs, tokens, ast, symbols, c_ast, run>>

LowerToC ==
    /\ pc = "lower"
    /\ \E seed \in Seeds :
        LET r == LowerPhase(ast, seed) IN
        /\ c_ast' = r.v
        /\ IF r.st = "ok" THEN Continue("emit") ELSE Finish("lower", r)
    /\ ran' = Append(ran, "lower")
    /\ UNCHANGED <<source, entry, p10_config, fs, tokens, ast, symbols, run>>

\* Phase 6: Emitter::new().emit(&c_ast), and Ok((c_code, header)).
EmitC ==
    /\ pc = "emit"
    /\ Finish("emit", PhaseOk(<<>>))
    /\ ran' = Append(ran, "emit")
    /\ UNCHANGED <<source, entry, p10_config, fs, tokens, ast, symbols, c_ast, run>>

\* The function f of the items, if any.
FnNamed(defs, name) == SelectSeq(defs, LAMBDA d : d.name = name)

TopFns(items) == SelectSeq(items, LAMBDA item : item.k = "Fn")

Outcome(m) == [trace |-> m.trace, status |-> m.status, ret |-> m.ret]

RECURSIVE Executable(_)

\* The statements of the block, nested ones included, are those the machine
\* gives a meaning to.
Executable(stmts) ==
    \A i \in 1..Len(stmts) :
        /\ stmts[i].k \in {"Let", "Assign", "Return", "If", "While", "Expr", "Block", "Unsafe"}
        /\ Executable(stmts[i].body)
        /\ Executable(stmts[i].els)

\* The compiled f is run: x = a, y = b, the slice s has b elements; f is a
\* function of statements the machine gives a meaning to.
Execute ==
    /\ pc = "done"
    /\ result.status = "ok"
    /\ entry \in CompileEntries
    /\ FnNamed(c_ast.fn_defs, "f") # <<>>
    /\ FnNamed(TopFns(ast), "f") # <<>>
    /\ Executable(FnNamed(TopFns(ast), "f")[1].body)
    /\ \E a \in Vals, b \in Vals, oracle \in Oracles :
        LET env == [n \in {"x", "y", "s.len", "p"} |->
                        CASE n = "x" -> a [] n \in {"y", "s.len"} -> b [] OTHER -> 0]
            src_f == FnNamed(TopFns(ast), "f")[1] IN
        run' = [done |-> TRUE, a |-> a, b |-> b, oracle |-> oracle,
                lowered |-> <<Outcome(ExecBlock(FnNamed(c_ast.fn_defs, "f")[1].body,
                                                Machine(env, oracle, FALSE)))>>,
                direct |-> <<Outcome(ExecBlock([i \in 1..Len(src_f.body) |->
                                                    DirectStmt(src_f.body[i])],
                                               Machine(env, oracle, TRUE)))>>]
    /\ pc' = "executed"
    /\ UNCHANGED <<source, entry, p10_config, fs, tokens, ast, symbols, c_ast, result,
                   ran, failed>>

Next ==
    \/ Tokenize
    \/ ParseFile
    \/ ExpandModules
    \/ ResolveNames
    \/ TypeCheck
    \/ P10Check
    \/ LowerToC
    \/ EmitC
    \/ Execute

Spec == Init /\ [][Next]_vars

(***************************************************************************)
(* Properties of the pipeline.  The sites of a function are its            *)
(* expressions, each with whether it lies in unsafe context.               *)
(***************************************************************************)

\* The phase has acted in this run.
Ran(phase) == \E i \in 1..Len(ran) : ran[i] = phase

\* A compile entry point has returned C.
Compiled ==
    pc \in {"done", "executed"} /\ result.status = "ok" /\ entry \in CompileEntries

\* The diagnostics of a returned error, those of a Multiple one by one.
Diagnostics(err) ==
    IF err = <<>> THEN <<>>
    ELSE IF err[1].kind = "Multiple" THEN err[1].errors ELSE err

HasEvent(trace, event) == \E i \in 1..Len(trace) : trace[i] = event

RECURSIVE SubExprs(_), SitesOf(_, _), CFlatten(_), DeclaredType(_, _, _)

\* The expression and every expression inside it.
SubExprs(expr) ==
    {expr} \cup UNION {SubExprs(expr.kids[i]) : i \in 1..Len(expr.kids)}

\* The sites of a block that starts in the context in_unsafe.
SitesOf(stmts, in_unsafe) ==
    UNION {LET inner == in_unsafe \/ stmts[i].k = "Unsafe" IN
           {[e |-> x, in_unsafe |-> in_unsafe] :
                x \in UNION {SubExprs(stmts[i].e[j]) : j \in 1..Len(stmts[i].e)}}
           \cup SitesOf(stmts[i].body, inner) \cup SitesOf(stmts[i].els, inner)
           : i \in 1..Len(stmts)}

\* The sites of a function as the type checker sees them: the body of an
\* unsafe fn is unsafe context.
FnSites(fn) == SitesOf(fn.body, fn.is_unsafe)

\* The statements of a C block in order, nested blocks included.
CFlatten(stmts) ==
    IF stmts = <<>> THEN <<>>
    ELSE <<Head(stmts)>> \o CFlatten(Head(stmts).body) \o CFlatten(Head(stmts).els)
         \o CFlatten(Tail(stmts))

\* The declared FastC type of an expression of fn: of a parameter, of the
\* result of a call, of a literal, through parentheses and arithmetic.
DeclaredType(expr, fn, items) ==
    CASE expr.k = "Ident" ->
            LET ps == SelectSeq(fn.params, LAMBDA q : q.name = expr.s) IN
            IF ps = <<>> THEN TVoid ELSE ps[1].ty
      [] expr.k = "Paren" -> DeclaredType(expr.kids[1], fn, items)
      [] expr.k = "Call" /\ expr.kids[1].k = "Ident" ->
            LET callee == FnNamed(TopFns(items), expr.kids[1].s) IN
            IF callee = <<>> THEN TVoid ELSE callee[1].ret[1]
      [] expr.k = "IntLit" -> T("Primitive", "I32", <<>>, <<>>)
      [] expr.k = "Binary" /\ expr.s \in {"Add", "Sub", "Mul", "Div", "Rem"} ->
            DeclaredType(expr.kids[1], fn, items)
      [] OTHER -> TVoid

IsSigned(ty) == ty.k = "Primitive" /\ ty.s \in {"I32", "I64"}

\* The lowered function of fn, as a sequence of one or no CFnDef.
Lowered(fn) == FnNamed(c_ast.fn_defs, fn.name)

\* if (...) { fc_trap(); } and its three forms
IsTrapIf(s) == s.k = "If" /\ s.body = <<TrapCall>>
IsBoundsCheck(s) == IsTrapIf(s) /\ s.e[1].k = "Binary" /\ s.e[1].s = "Ge"
IsDivZeroCheck(s) == IsTrapIf(s) /\ s.e[1].k = "Binary" /\ s.e[1].s = "Eq"
IsOverflowCheck(s) ==
    IsTrapIf(s) /\ s.e[1].k = "Call"
    /\ s.e[1].kids[1].s \in OverflowBuiltins

\* How many statements of the lowered fn are checks of the form Is.
Checks(fn, Is(_)) ==
    IF Lowered(fn) = <<>> THEN 0
    ELSE Len(SelectSeq(CFlatten(Lowered(fn)[1].body), Is))

\* The function f of the program, which Execute runs.
MainFn == FnNamed(TopFns(ast), "f")[1]

\* C1: every entry point returns a success value or a CompileError on every
\* source; no phase panics.
C1_EntryPointsNeverPanic == result.status # "panic"

\* An operation that the type checker must see in unsafe context: a call of
\* a function declared unsafe fn, a deref of a raw pointer.
RequiresUnsafe(expr, fn, items) ==
    \/ /\ expr.k = "Call"
       /\ expr.kids[1].k = "Ident"
       /\ \E i \in 1..Len(items) :
            items[i].k = "Fn" /\ items[i].name = expr.kids[1].s /\ items[i].is_unsafe
    \/ expr.k = "Deref" /\ DeclaredType(expr.kids[1], fn, items).k = "Raw"

\* The sites of the program that require unsafe context and lie outside it.
OutsideUnsafe(items) ==
    UNION {{s \in FnSites(TopFns(items)[i]) :
                ~s.in_unsafe /\ RequiresUnsafe(s.e, TopFns(items)[i], items)}
           : i \in 1..Len(TopFns(items))}

UnsafeMessages ==
    {"call to unsafe function requires unsafe block",
     "dereference of raw pointer requires unsafe block"}

\* The Type diagnostics the type checker has reported about unsafe context.
UnsafeDiagnostics ==
    SelectSeq(IF failed = "typecheck" THEN Diagnostics(result.err) ELSE <<>>,
              LAMBDA d : d.kind = "Type" /\ d.msg \in UnsafeMessages)

\* C2: the type checker reports a Type diagnostic for exactly the operations
\* that require unsafe context and lie outside every unsafe block and unsafe
\* fn body; inside, it accepts them.
C2_UnsafeOperationsOnlyInUnsafeContext ==
    Ran("typecheck") => Len(UnsafeDiagnostics) = Cardinality(OutsideUnsafe(ast))

\* The at(s, i) of fn on a slice, in safe code.
SafeSliceAt(fn, items) ==
    {s \in SitesOf(fn.body, FALSE) :
        s.e.k = "At" /\ ~s.in_unsafe /\ DeclaredType(s.e.kids[1], fn, items).k = "Slice"}

\* C3: in a compiled program every at(s, i) on a slice in safe code has its
\* bounds check (index >= s.len guarding fc_trap) in the lowered function,
\* whatever the form of the base, and an at inside unsafe { } has none.
C3_SliceIndexingIsBoundsChecked ==
    Compiled =>
        \A i \in 1..Len(TopFns(ast)) :
            Checks(TopFns(ast)[i], IsBoundsCheck)
                = Cardinality(SafeSliceAt(TopFns(ast)[i], ast))

\* The + - * of fn on signed integers, in safe code.
SafeSignedArith(fn, items) ==
    {s \in FnSites(fn) :
        /\ s.e.k = "Binary" /\ s.e.s \in {"Add", "Sub", "Mul"} /\ ~s.in_unsafe
        /\ IsSigned(DeclaredType(s.e.kids[1], fn, items))
        /\ IsSigned(DeclaredType(s.e.kids[2], fn, items))}

\* C4: in a compiled program every + - * on signed integers in safe code is
\* lowered to an overflow builtin with a trap, whatever the operands are.
C4_SignedArithmeticIsOverflowChecked ==
    Compiled =>
        \A i \in 1..Len(TopFns(ast)) :
            Checks(TopFns(ast)[i], IsOverflowCheck)
                >= Cardinality(SafeSignedArith(TopFns(ast)[i], ast))

\* The / and % of fn in the context in_unsafe.
Divisions(fn, in_unsafe) ==
    {s \in FnSites(fn) :
        s.e.k = "Binary" /\ s.e.s \in {"Div", "Rem"} /\ s.in_unsafe = in_unsafe}

\* C5: the zero check of a / or % in safe code tests the value the operation
\* divides by: the compiled function never divides by zero.
C5_DivisorIsCheckedBeforeUse ==
    (run.done /\ Divisions(MainFn, TRUE) = {}) =>
        ~HasEvent(run.lowered[1].trace, <<"divzero">>)

\* C6: the lowerer omits the runtime checks exactly where the type checker
\* sees unsafe context: a function whose sites are all unsafe has no check,
\* and every / or % in safe context has its zero check.
C6_LowererAgreesWithTypeCheckerOnUnsafe ==
    Compiled =>
        \A i \in 1..Len(TopFns(ast)) :
            /\ Checks(TopFns(ast)[i], IsDivZeroCheck)
                    = Cardinality(Divisions(TopFns(ast)[i], FALSE))
            /\ (\A s \in FnSites(TopFns(ast)[i]) : s.in_unsafe)
                    => Checks(TopFns(ast)[i], IsTrapIf) = 0

\* The function has an && or an ||.
Logical(fn) ==
    \E s \in FnSites(fn) : s.e.k = "Binary" /\ s.e.s \in {"And", "Or"}

\* C7: the lowered a && b and a || b run nothing of b when a decides the
\* result: the compiled function does what short-circuit evaluation does.
C7_ShortCircuitIsPreserved ==
    (run.done /\ Logical(MainFn)) => run.lowered = run.direct

\* The function has a call with an argument that holds a call.
CallInArgument(fn) ==
    \E s \in FnSites(fn) :
        /\ s.e.k = "Call"
        /\ \E i \in 2..Len(s.e.kids) : \E x \in SubExprs(s.e.kids[i]) : x.k = "Call"

\* C8: the calls inside the arguments of a call happen in source order, left
\* to right, before the call.
C8_ArgumentsEvaluateLeftToRight ==
    (run.done /\ CallInArgument(MainFn) /\ ~Logical(MainFn)) =>
        run.lowered[1].trace = run.direct[1].trace

\* C9: when parse fails on the source with a diagnostic, every entry point
\* fails and returns that diagnostic: same kind, message and span.
C9_ParseFailureIsReturned ==
    (pc = "done" /\ ~parse(source).ok) =>
        result = [status |-> "err", err |-> <<parse(source).err[1]>>]

\* check_with_p10 with a relaxed configuration has returned a parse error.
C9_Witness ==
    /\ pc = "done" /\ ~parse(source).ok
    /\ entry = "check_with_p10" /\ p10_config = P10Relaxed /\ result.status = "err"

\* The phases in the order of the driver.
PhaseOrder == <<"lex", "parse", "expand", "resolve", "typecheck", "p10", "lower", "emit">>

\* The kind under which the failure of a phase is returned.
KindOfPhase(phase) ==
    CASE phase \in {"parse", "expand"} -> "Parse"
      [] phase = "resolve" -> "Resolve"
      [] phase = "typecheck" -> "Type"
      [] phase = "p10" -> "P10"
      [] OTHER -> "None"

\* C10: the phases run in the fixed order, no phase runs after a failing
\* one, the returned error is the accumulated error of the failing phase and
\* holds diagnostics of one phase only; parse, resolve, type check and P10
\* failures keep their kind, a failure of module expansion is returned as a
\* Parse diagnostic.
C10_PhasesShortCircuitInOrder ==
    /\ Len(ran) <= Len(PhaseOrder)
    /\ ran = SubSeq(PhaseOrder, 1, Len(ran))
    /\ failed # "" => ran[Len(ran)] = failed
    /\ result.status = "err" =>
        /\ \A i \in 1..Len(Diagnostics(result.err)) :
                Diagnostics(result.err)[i].kind = KindOfPhase(failed)
        /\ failed = "resolve" => Diagnostics(result.err) = resolve(source, ast).errors
        /\ failed = "typecheck" =>
                \E seed \in Seeds :
                    Diagnostics(result.err) = typecheck(source, symbols, ast, seed).errors
        /\ failed = "p10" =>
                \E seed \in Seeds :
                    Diagnostics(result.err) = check_and_report(p10_config, ast, source, seed)

\* Module expansion has failed and its error has been returned.
C10_Witness == result.status = "err" /\ failed = "expand" /\ ran[Len(ran)] = "expand"

\* The phase a kind of diagnostic names.
PhaseOfKind(kind) ==
    CASE kind = "Parse" -> "parse"
      [] kind = "Resolve" -> "resolve"
      [] kind = "Type" -> "typecheck"
      [] kind = "P10" -> "p10"
      [] OTHER -> "none"

\* C10 as stated: a returned error is under the kind of the phase that
\* failed, never under the kind of another phase.
C10_KindIsThatOfTheFailingPhase ==
    result.status = "err" =>
        \A i \in 1..Len(Diagnostics(result.err)) :
            PhaseOfKind(Diagnostics(result.err)[i].kind) = failed
\* C11: every diagnostic an entry point returns, the children of a Multiple
\* included, has a span that starts inside the text the diagnostic carries:
\* 0 <= a <= |S| for the start a of the span and the source S of the diagnostic.
C11_SpansLieInTheirSource ==
    result.status = "err" =>
        \A i \in 1..Len(Diagnostics(result.err)) :
            /\ 0 <= Diagnostics(result.err)[i].span
            /\ Diagnostics(result.err)[i].span <= SourceLen(Diagnostics(result.err)[i].src)

(***************************************************************************)
(* Properties of the lowered file.                                         *)
(***************************************************************************)

\* C12: two compilations of one source give the same lowered file: the
\* lowered file is the same for every order in which the hash sets of the
\* lowerer are iterated, and it is that of a lowerer that starts afresh.
C12_LoweringIsDeterministic ==
    Compiled => \A seed \in Seeds : lower(ast, seed) = c_ast

\* A file is compiled whose typedefs come from hash sets of two names.
C12_Witness ==
    /\ Compiled
    /\ \E seed \in Seeds :
          Let(collect_types_from_file(LowerNew, c_ast.fn_defs), LAMBDA used :
              /\ Cardinality(used.opt_types) >= 2
              /\ Iter(used.opt_types, seed) # Iter(used.opt_types, 0))

\* The number of "{" less the number of "}" before lexeme i.
BraceDepth(src, i) ==
    Cardinality({j \in 1..(i - 1) : src[j] = "{"})
        - Cardinality({j \in 1..(i - 1) : src[j] = "}"})

\* The top-level struct declarations of a source: first and last lexeme.
StructRanges(src) ==
    {r \in (1..Len(src)) \X (1..Len(src)) :
        /\ src[r[1]] = "struct" /\ BraceDepth(src, r[1]) = 0
        /\ r[1] < r[2] /\ src[r[2]] = "}"
        /\ \A j \in r[1]..(r[2] - 1) : src[j] # "}"}

\* The source with the declarations at r1 and r2 in each other's place.
SwapText(src, r1, r2) ==
    SubSeq(src, 1, r1[1] - 1) \o SubSeq(src, r2[1], r2[2])
        \o SubSeq(src, r1[2] + 1, r2[1] - 1) \o SubSeq(src, r1[1], r1[2])
        \o SubSeq(src, r2[2] + 1, Len(src))

\* compile_with_p10 of a source as one function: the lowered file, <<>> when
\* a phase fails.
CompileOf(src, files, config, seed) ==
    Let(ParsePhase(LexPhase(src), src), LAMBDA parsed :
    IF parsed.st # "ok" THEN <<>>
    ELSE Let(ExpandPhase(files, parsed.v), LAMBDA expanded :
    IF expanded.st # "ok" THEN <<>>
    ELSE Let(ResolvePhase(src, expanded.v), LAMBDA resolved :
    IF resolved.st # "ok" THEN <<>>
    ELSE IF TypeCheckPhase(src, resolved.v, expanded.v, seed).st # "ok" THEN <<>>
    ELSE IF P10Phase(config, expanded.v, src, seed).st # "ok" THEN <<>>
    ELSE Let(LowerPhase(expanded.v, seed), LAMBDA lowered :
    IF lowered.st # "ok" THEN <<>> ELSE lowered.v))))

\* C13: the source with two of its top-level struct declarations swapped
\* compiles to the lowered file of the source.
C13_StructOrderDoesNotMatter ==
    Compiled =>
        \A r1, r2 \in StructRanges(source) :
            r1[2] < r2[1] =>
                \A seed \in Seeds :
                    CompileOf(SwapText(source, r1, r2), fs, p10_config, seed) = c_ast

\* A source with two top-level structs is compiled, the one declared first
\* being the greater by name.
C13_Witness ==
    /\ Compiled
    /\ \E r1, r2 \in StructRanges(source) :
          r1[2] < r2[1] /\ StrLess(Chars[source[r2[1] + 1]], Chars[source[r1[1] + 1]])

\* A type definition the lowerer generated.
IsGenerated(decl) == Len(decl.name) > 3 /\ SubSeq(decl.name, 1, 3) = "fc_"

\* C14: in the declaration list of a lowered file the generated typedefs
\* come before every user type declaration, and they are in ascending order
\* of their names.
C14_GeneratedTypedefsFirstAndSorted ==
    Compiled =>
        \A i, j \in 1..Len(c_ast.type_defs) :
            i < j =>
                /\ IsGenerated(c_ast.type_defs[j]) => IsGenerated(c_ast.type_defs[i])
                /\ (IsGenerated(c_ast.type_defs[i]) /\ IsGenerated(c_ast.type_defs[j])) =>
                        TextLess(c_ast.type_defs[i].name, c_ast.type_defs[j].name)

RECURSIVE SubTypes(_)

\* A type and the types it is made of.
SubTypes(ty) ==
    {ty} \cup UNION {SubTypes(ty.kids[i]) : i \in 1..Len(ty.kids)}

\* The types of the signature of a function.
SignatureTypes(fn) ==
    SubTypes(fn.ret[1]) \cup UNION {SubTypes(fn.params[i].ty) : i \in 1..Len(fn.params)}

\* The type definition of the name in the lowered file.
TypeDefNamed(name) == SelectSeq(c_ast.type_defs, LAMBDA d : d.name = name)

\* C15: the struct generated for an opt(T) or a res(T, E) of a signature
\* has payload fields of the C types T and E lower to.
C15_PayloadFieldsHaveTheLoweredTypes ==
    Compiled =>
        \A i \in 1..Len(TopFns(ast)) :
            \A ty \in SignatureTypes(TopFns(ast)[i]) :
                /\ ty.k = "Opt" =>
                    Let(TypeDefNamed("fc_" \o c_type_to_name(lower_type(ty))), LAMBDA d :
                        /\ Len(d) = 1
                        /\ d[1].fields[2] = CParam("value", lower_type(ty.kids[1])))
                /\ ty.k = "Res" =>
                    Let(TypeDefNamed("fc_" \o c_type_to_name(lower_type(ty))), LAMBDA d :
                        /\ Len(d) = 1
                        /\ d[1].fields[2] = CParam("ok", lower_type(ty.kids[1]))
                        /\ d[1].fields[3] = CParam("err", lower_type(ty.kids[2])))

RECURSIVE FnsOf(_)

\* The functions of the items, those of inlined modules included.
FnsOf(items) ==
    IF items = <<>> THEN {}
    ELSE (CASE Head(items).k = "Fn" -> {Head(items)}
            [] Head(items).k = "Mod" -> FnsOf(Head(items).items)
            [] OTHER -> {})
         \cup FnsOf(Tail(items))

\* The expressions of a function body at any depth.
BodyExprs(fn) == {site.e : site \in FnSites(fn)}

\* A call of a known allocator, which Rule 3 forbids.
IsAllocCall(expr) ==
    expr.k = "Call" /\ expr.kids[1].k = "Ident" /\ expr.kids[1].s \in ALLOC_FUNCTIONS

\* The diagnostic of rule code at span is among those returned.
Reported(code, span) ==
    /\ failed = "p10"
    /\ \E i \in 1..Len(Diagnostics(result.err)) :
            /\ Diagnostics(result.err)[i].code = code
            /\ Diagnostics(result.err)[i].span = span

\* C18: once P10 analysis has run with its rules enabled, every call of an
\* allocator in a function body is reported with P10-003 at the call,
\* wherever in the function it occurs: as the expression of a statement, as
\* an operand, as an argument, in a nested block.
C18_ForbiddenCallsAreReportedAnywhere ==
    (Ran("p10") /\ p10_is_enabled(p10_config)) =>
        \A fn \in FnsOf(ast) : \A expr \in BodyExprs(fn) :
            IsAllocCall(expr) => Reported("P10-003", expr.sp)

RECURSIVE ReachIn(_, _, _)

\* The functions that fn calls by name, anywhere in its body.
Callees(fn, fns) ==
    {g \in fns : \E expr \in BodyExprs(fn) :
        expr.k = "Call" /\ expr.kids[1].k = "Ident" /\ expr.kids[1].s = g.name}

\* The functions reached from those of from by at most n further calls.
ReachIn(from, fns, n) ==
    IF n = 0 THEN from
    ELSE ReachIn(from \cup UNION {Callees(g, fns) : g \in from}, fns, n - 1)

\* b is reached from a by one call or more.
Calls(a, b, fns) == b \in ReachIn(Callees(a, fns), fns, Cardinality(fns))

\* The Rule 1 diagnostics returned for the function.
RuleOneFor(fn) ==
    IF failed # "p10" THEN <<>>
    ELSE SelectSeq(Diagnostics(result.err), LAMBDA d :
            d.code = "P10-001"
            /\ d.msg = "function '" \o fn.name \o "' is part of a recursive call cycle")

\* C17: under the safety-critical configuration each function of the program
\* that lies on a call cycle gets one P10-001 diagnostic, the functions of
\* one cycle get the same cycle note, and a function on no cycle gets none.
C17_EveryFunctionOnACycleIsReported ==
    (Ran("p10") /\ p10_config = P10SafetyCritical) =>
        \A a \in FnsOf(ast) :
            /\ Len(RuleOneFor(a)) = (IF Calls(a, a, FnsOf(ast)) THEN 1 ELSE 0)
            /\ \A b \in FnsOf(ast) :
                    (Calls(a, b, FnsOf(ast)) /\ Calls(b, a, FnsOf(ast))) =>
                        /\ RuleOneFor(a) # <<>> /\ RuleOneFor(b) # <<>>
                        /\ RuleOneFor(a)[1].hint = RuleOneFor(b)[1].hint

\* The lines of the body span of a function that hold something other than
\* comments and are not a lone brace.
CodeLines(fn) ==
    Len(SelectSeq(split_lines(slice_text(source, fn.body_sp[1], fn.body_sp[2]), <<>>, <<>>),
                  LAMBDA line :
                      /\ SelectSeq(line, LAMBDA l : l \notin Comments) # <<>>
                      /\ line # <<"{">>
                      /\ line # <<"}">>))

\* The Rule 4 diagnostics returned for the function.
RuleFourFor(fn) ==
    IF failed # "p10" THEN <<>>
    ELSE SelectSeq(Diagnostics(result.err), LAMBDA d :
            d.code = "P10-004" /\ d.span = fn.sp)

\* C19: with Rule 4 enabled, a function at the top level of the file is
\* reported exactly when its body span has more than max_function_lines
\* lines that are not empty, not only comments (line or block) and not a
\* lone brace.
C19_ReportedIffMoreCodeLinesThanTheLimit ==
    (Ran("p10") /\ rule_is_enabled("function-size", p10_config)) =>
        \A i \in 1..Len(TopFns(ast)) :
            RuleFourFor(TopFns(ast)[i]) # <<>>
                <=> CodeLines(TopFns(ast)[i]) > p10_config.max_function_lines

RECURSIVE ExternalMods(_), ReachedIn(_, _)

\* The names of the mod declarations without a body among the items, those
\* inside inline modules included.
ExternalMods(items) ==
    IF items = <<>> THEN {}
    ELSE (CASE Head(items).k = "Mod" /\ ~Head(items).hasBody -> {Head(items).name}
            [] Head(items).k = "Mod" -> ExternalMods(Head(items).items)
            [] OTHER -> {})
         \cup ExternalMods(Tail(items))

\* The source file of the run as a place from which modules are imported.
RootFile == [ok |-> TRUE, path |-> "", dir |-> ""]

\* The items of a file: of the source of the run, of a module file that can
\* be read and parsed.
ItemsOf(file) ==
    IF file = RootFile THEN ParsePhase(LexPhase(source), source).v
    ELSE IF file.path \in fs.unreadable \/ ~parse_module(fs.files[file.path], file.path).ok
    THEN <<>>
    ELSE parse_module(fs.files[file.path], file.path).items

\* The files that the mod declarations of a file name.
Imports(file) ==
    {resolve_module_path(ModuleLoaderNew(fs, ""), name, file.dir) :
        name \in ExternalMods(ItemsOf(file))}

\* The files reached from those of from by at most n further imports.
ReachedIn(from, n) ==
    IF n = 0 THEN from
    ELSE ReachedIn(from \cup UNION {Imports(file) : file \in {g \in from : g.ok}}, n - 1)

ImportedFrom(file) == ReachedIn(Imports(file), Cardinality(DOMAIN fs.files))

\* A chain of imports that starts at the source comes back to a file on it.
ImportsReenter == \E file \in ImportedFrom(RootFile) : file.ok /\ file \in ImportedFrom(file)

\* Every import that can be followed resolves to a file that is read and
\* parsed.
ImportsLoad ==
    \A file \in ImportedFrom(RootFile) :
        /\ file.ok
        /\ file.path \notin fs.unreadable
        /\ parse_module(fs.files[file.path], file.path).ok

\* The expansion of the modules of the source of the run.
Expansion ==
    expand_modules(ModuleLoaderNew(fs, ""), ParsePhase(LexPhase(source), source).v, "")

\* C20: an expansion reads no file a second time and is never cut off as
\* unbounded; when the imports followed from the source come back to a file
\* that is being loaded, the expansion fails with CircularImport for a path
\* of the loaded set, and the entry point returns that error.
C20_ReentryFailsWithCircularImport ==
    (Ran("expand") /\ fs.project) =>
        /\ \A i, j \in 1..Len(Expansion.ld.reads) :
                i # j => Expansion.ld.reads[i] # Expansion.ld.reads[j]
        /\ ~Expansion.ok => Expansion.err.variant # "Unbounded"
        /\ (ImportsReenter /\ ImportsLoad) =>
                /\ ~Expansion.ok
                /\ Expansion.err.variant = "CircularImport"
                /\ Expansion.err.path \in Expansion.ld.loaded
                /\ failed = "expand"
                /\ result.err = <<LoaderErrorToCompileError(Expansion.err)>>

\* The imports have come back to the first of two module files after both
\* were read, and the entry point has returned.
C20_Witness ==
    /\ Ran("expand") /\ fs.project /\ ImportsReenter /\ ImportsLoad
    /\ Len(Expansion.ld.reads) = 2
    /\ result.status = "err"

\* The mod declarations from which files are imported: the importing file and
\* the name declared.
ImportDecls ==
    {d \in ({RootFile} \cup {g \in ImportedFrom(RootFile) : g.ok}) \X {"m", "k", "s"} :
        d[2] \in ExternalMods(ItemsOf(d[1]))}

TargetOf(d) == resolve_module_path(ModuleLoaderNew(fs, ""), d[2], d[1].dir)

\* Two distinct mod declarations reached from the source name the same file.
ImportsShare == \E d1, d2 \in ImportDecls : d1 # d2 /\ TargetOf(d1) = TargetOf(d2)

\* C21: when two distinct mod declarations reached in one expansion import the
\* same module file and the imports form no cycle, the expansion succeeds
\* without CircularImport and the file is read once for each declaration.
C21_SharedImportExpandsTwice ==
    (Ran("expand") /\ fs.project /\ ImportsShare /\ ~ImportsReenter /\ ImportsLoad) =>
        /\ Expansion.ok
        /\ failed # "expand"
        /\ \A d1, d2 \in ImportDecls :
                (d1 # d2 /\ TargetOf(d1) = TargetOf(d2)) =>
                    Cardinality({i \in 1..Len(Expansion.ld.reads) :
                                    Expansion.ld.reads[i] = TargetOf(d1).path}) >= 2

\* Two files that import the same third one have been expanded.
C21_Witness ==
    /\ Ran("expand") /\ fs.project /\ ImportsShare /\ ~ImportsReenter /\ ImportsLoad
    /\ Len(Expansion.ld.reads) >= 3

RECURSIVE EnumsOf(_), SwitchesOf(_), ConstNames(_)

\* The enums declared by the items, those of inlined modules included.
EnumsOf(items) ==
    IF items = <<>> THEN {}
    ELSE (CASE Head(items).k = "Enum" -> {Head(items)}
            [] Head(items).k = "Mod" -> EnumsOf(Head(items).items)
            [] OTHER -> {})
         \cup EnumsOf(Tail(items))

\* The switch statements of a block at any depth.
SwitchesOf(stmts) ==
    UNION {(IF stmts[i].k = "Switch" THEN {stmts[i]} ELSE {})
           \cup SwitchesOf(stmts[i].body) \cup SwitchesOf(stmts[i].els)
           : i \in 1..Len(stmts)}

\* The names that occur in a constant expression.
ConstNames(expr) ==
    IF expr.k = "Ident" THEN {expr.s}
    ELSE UNION {ConstNames(expr.kids[i]) : i \in 1..Len(expr.kids)}

\* The variant constants an enum declares.
DeclaredVariants(enum) ==
    {enum.name \o "_" \o enum.params[i].name : i \in 1..Len(enum.params)}

\* The enum variant constants named by the case arms of a switch.
CoveredVariants(switch) ==
    UNION {ConstNames(switch.body[i].e[1]) : i \in 1..Len(switch.body)}
    \cap UNION {DeclaredVariants(enum) : enum \in EnumsOf(ast)}

\* The type checker has returned the exhaustiveness error of the switch.
ExhaustivenessError(switch, enum) ==
    /\ failed = "typecheck"
    /\ \E i \in 1..Len(Diagnostics(result.err)) :
        LET d == Diagnostics(result.err)[i]
            prefix == "non-exhaustive switch on enum '" \o enum.name \o "'"
        IN  /\ d.kind = "Type"
            /\ d.span = switch.sp
            /\ Len(d.msg) >= Len(prefix)
            /\ SubSeq(d.msg, 1, Len(prefix)) = prefix

\* C16: once the type checker has run, for every switch without a default
\* arm whose scrutinee has the type of a declared enum, the exhaustiveness
\* error of the switch is returned exactly when the set of variant constants
\* its case arms name differs from the set of variants the enum declares.
C16_ErrorIffCoveredDiffersFromDeclared ==
    Ran("typecheck") =>
        \A fn \in FnsOf(ast) : \A switch \in SwitchesOf(fn.body) :
            \A enum \in EnumsOf(ast) :
                (/\ switch.hasElse # "default"
                 /\ DeclaredType(switch.e[1], fn, ast) = T("Named", enum.name, <<>>, <<>>))
                => (ExhaustivenessError(switch, enum)
                        <=> CoveredVariants(switch) # DeclaredVariants(enum))

RECURSIVE RedefinedIn(_), DeclaredNames(_)

\* The names that occur a second time in a sequence of names.
Dups(names) == {names[j] : j \in {j \in 1..Len(names) : \E i \in 1..(j - 1) : names[i] = names[j]}}

\* The names a block declares by let.
LetNames(block) ==
    [i \in 1..Len(SelectSeq(block, LAMBDA stmt : stmt.k = "Let")) |->
        SelectSeq(block, LAMBDA stmt : stmt.k = "Let")[i].s]

\* The names declared a second time in the scope of the block or in the scope
\* of a block inside it.
RedefinedIn(block) ==
    Dups(LetNames(block))
    \cup UNION {RedefinedIn(block[i].body) \cup RedefinedIn(block[i].els) : i \in 1..Len(block)}

\* The names the items declare in the global scope, in order: those of the
\* items of a module with a body and of an extern block are declared there
\* too.
DeclaredNames(items) ==
    IF items = <<>> THEN <<>>
    ELSE (CASE Head(items).k \in {"Mod", "Extern"} -> DeclaredNames(Head(items).items)
            [] Head(items).k = "Enum" ->
                    <<Head(items).name>>
                    \o [i \in 1..Len(Head(items).params) |->
                            Head(items).name \o "_" \o Head(items).params[i].name]
            [] OTHER -> <<Head(items).name>>)
         \o DeclaredNames(Tail(items))

\* The names defined a second time in one scope: the global scope, the
\* parameters of a function, a block.
DefinedTwice(items) ==
    Dups(DeclaredNames(items))
    \cup UNION {Dups([i \in 1..Len(fn.params) |-> fn.params[i].name]) \cup RedefinedIn(fn.body)
                : fn \in FnsOf(items)}

\* The redefinition messages among the errors of the resolver.
RedefinitionsReported(errors) ==
    {errors[i].msg : i \in {j \in 1..Len(errors) :
        /\ Len(errors[j].msg) >= 12
        /\ SubSeq(errors[j].msg, 1, 12) = "redefinition"}}

\* C22: the resolver reports redefinition of a name exactly for the names
\* defined a second time in one scope; a block, the body of a function
\* relative to its parameters and the body of a for loop relative to its
\* header are scopes of their own.
C22_RedefinitionIffSameScope ==
    (Ran("resolve") /\ ~resolve(source, ast).panicked) =>
        RedefinitionsReported(resolve(source, ast).errors)
            = {"redefinition of '" \o name \o "'" : name \in DefinedTwice(ast)}

\* A let in a block has been resolved with the name declared twice there.
C22_Witness ==
    /\ Ran("resolve") /\ DefinedTwice(ast) # {}
    /\ RedefinitionsReported(Diagnostics(result.err)) # {}

RECURSIVE UndefinedIn(_, _)

\* The names an expression refers to.
NamesOf(expr) == {sub.s : sub \in {e \in SubExprs(expr) : e.k \in {"Ident", "StructLit"}}}

NamesOfAll(exprs) == UNION {NamesOf(exprs[i]) : i \in 1..Len(exprs)}

\* The names of the variables a for header declares.
HeaderNames(stmt) == {stmt.init[i].s : i \in {j \in 1..Len(stmt.init) : stmt.init[j].k = "Let"}}

\* The names referred to in a block where no declaration is visible: env
\* holds the names visible at the start of the block, a let adds its name for
\* the statements after it, and what a block declares ends with the block.
UndefinedIn(block, env) ==
    IF block = <<>> THEN {}
    ELSE (CASE Head(block).k = "For" ->
                    (NamesOfAll(IF Head(block).init = <<>> THEN <<>> ELSE Head(block).init[1].e)
                        \ env)
                    \cup (NamesOfAll(Head(block).e
                                \o (IF Head(block).step = <<>> THEN <<>>
                                     ELSE Head(block).step[1].e))
                            \ (env \cup HeaderNames(Head(block))))
                    \cup UndefinedIn(Head(block).body, env \cup HeaderNames(Head(block)))
            [] Head(block).k = "Case" -> UndefinedIn(Head(block).body, env)
            [] OTHER ->
                    (NamesOfAll(Head(block).e) \ env)
                    \cup UndefinedIn(Head(block).body, env)
                    \cup UndefinedIn(Head(block).els, env))
         \cup UndefinedIn(Tail(block),
                          IF Head(block).k = "Let" THEN env \cup {Head(block).s} ELSE env)

\* The names referred to in the functions of the items where neither a
\* global declaration, a parameter nor a local declaration is visible.
UndefinedNames(items) ==
    UNION {UndefinedIn(fn.body,
                       {DeclaredNames(items)[i] : i \in 1..Len(DeclaredNames(items))}
                       \cup {fn.params[i].name : i \in 1..Len(fn.params)})
           : fn \in FnsOf(items)}

\* The names the resolver reports as undefined.
UndefinedReported(errors) ==
    {errors[i].msg : i \in {j \in 1..Len(errors) :
        /\ Len(errors[j].msg) >= 14
        /\ SubSeq(errors[j].msg, 1, 14) = "undefined name"}}

CastsOf(fn) == {expr \in UNION {SubExprs(e) : e \in BodyExprs(fn)} : expr.k = "Cast"}

\* The type checker has returned the error of the cast.
CastError(cast) ==
    /\ failed = "typecheck"
    /\ \E i \in 1..Len(Diagnostics(result.err)) :
        LET d == Diagnostics(result.err)[i]
        IN  /\ d.kind = "Type"
            /\ d.span = cast.sp
            /\ Len(d.msg) >= 11
            /\ SubSeq(d.msg, 1, 11) = "cannot cast"

IsNumeric(ty) == ty.k = "Primitive" /\ ty.s \in {"I32", "I64", "U32", "F64"}

\* The casts that are permitted: between numeric types, between ref and raw
\* and between mref and rawm in either direction, from raw to raw and from
\* rawm to rawm.
CastPermitted(from, to) ==
    \/ IsNumeric(from) /\ IsNumeric(to)
    \/ {from.k, to.k} \in {{"Ref", "Raw"}, {"Mref", "Rawm"}, {"Raw"}, {"Rawm"}}

\* C24: once the type checker has run, the error of a cast of a parameter is
\* returned exactly when the cast is not one of the permitted ones.
C24_CastAcceptedIffPermitted ==
    Ran("typecheck") =>
        \A i \in 1..Len(TopFns(ast)) : \A cast \in CastsOf(TopFns(ast)[i]) :
            CastError(cast)
                <=> ~CastPermitted(DeclaredType(cast.kids[1], TopFns(ast)[i], ast), cast.ty[1])

\* A cast from raw to ref has been type-checked.
C24_Witness ==
    /\ Ran("typecheck")
    /\ \E i \in 1..Len(TopFns(ast)) : \E cast \in CastsOf(TopFns(ast)[i]) :
            /\ DeclaredType(cast.kids[1], TopFns(ast)[i], ast).k = "Raw"
            /\ cast.ty[1].k = "Ref"

ArithmeticOps == {"Add", "Sub", "Mul", "Div", "Rem"}
BitwiseOps == {"BitAnd", "BitOr", "BitXor", "Shl", "Shr"}

\* The arithmetic and bitwise expressions of a function body.
OperationsOf(fn) ==
    {expr \in UNION {SubExprs(e) : e \in BodyExprs(fn)} :
        expr.k = "Binary" /\ expr.s \in ArithmeticOps \cup BitwiseOps}

\* The type checker has returned a Type diagnostic for the expression.
TypeErrorAt(expr) ==
    /\ failed = "typecheck"
    /\ \E i \in 1..Len(Diagnostics(result.err)) :
            Diagnostics(result.err)[i].kind = "Type"
            /\ Diagnostics(result.err)[i].span = expr.sp

IsInteger(ty) == ty.k = "Primitive" /\ ty.s \in {"I32", "I64", "U32"}

\* The operands belong to the class of the operator: the same numeric type
\* for an arithmetic operator, integers for a bitwise one.
OperandsFit(op, left, right) ==
    IF op \in ArithmeticOps THEN IsNumeric(left) /\ left = right
    ELSE IsInteger(left) /\ IsInteger(right)

\* C25: once the type checker has run, an arithmetic or bitwise expression
\* over parameters whose types are not of the class of the operator has a
\* Type diagnostic.
C25_BinaryOperandsOfOperatorClass ==
    Ran("typecheck") =>
        \A i \in 1..Len(TopFns(ast)) : \A expr \in OperationsOf(TopFns(ast)[i]) :
            (/\ expr.kids[1].k = "Ident" /\ expr.kids[2].k = "Ident"
             /\ ~OperandsFit(expr.s, DeclaredType(expr.kids[1], TopFns(ast)[i], ast),
                             DeclaredType(expr.kids[2], TopFns(ast)[i], ast)))
            => TypeErrorAt(expr)

\* An arithmetic expression over bool parameters has been type-checked.
C25_Witness ==
    /\ Ran("typecheck")
    /\ \E i \in 1..Len(TopFns(ast)) : \E expr \in OperationsOf(TopFns(ast)[i]) :
            /\ expr.s \in ArithmeticOps
            /\ expr.kids[1].k = "Ident"
            /\ DeclaredType(expr.kids[1], TopFns(ast)[i], ast) = TBool

\* The set of the diagnostics of a run of the resolver.
DiagnosticSet(errors) == {errors[i] : i \in 1..Len(errors)}

\* C26: a second run of the resolver over the same AST, from the state the
\* first run left, leaves the symbol table as it was after the first run and
\* yields the same set of diagnostics.
C26_ResolverIdempotent ==
    (Ran("resolve") /\ ~resolve(source, ast).panicked) =>
        /\ resolve_again(resolve(source, ast), ast).symbols = resolve(source, ast).symbols
        /\ DiagnosticSet(resolve_again(resolve(source, ast), ast).errors)
                = DiagnosticSet(resolve(source, ast).errors)

\* The resolver has accepted a file with a function, and a second run from
\* its state has ended.
C26_Witness ==
    /\ Ran("resolve") /\ failed = ""
    /\ TopFns(ast) # <<>>
    /\ ~resolve_again(resolve(source, ast), ast).panicked

\* The errors of the type checker for the body of one function of the
\* program, checked with the symbols and enums of the run.
BodyTypeErrors(fn, seed) ==
    check_fn([TypeCheckerNew(source, symbols) EXCEPT
                  !.enum_decls = collect_enum_decls(ast, @), !.hasher = seed], fn).errors

RECURSIVE BodyViolations(_, _)

\* The violations of the enabled rules among rules for the statements of
\* the body of one function.
BodyViolations(fn, rules) ==
    IF rules = <<>> THEN <<>>
    ELSE (IF rule_is_enabled(Head(rules), p10_config)
          THEN check_block_recursive(fn.body, Head(rules), p10_config)
          ELSE <<>>)
         \o BodyViolations(fn, Tail(rules))

\* C27: once the lowerer has run, every function it has lowered, those of
\* inlined modules included, has a body in which the type checker finds no
\* error and the enabled P10 rules find no violation: no function reaches C
\* without these checks having passed on its body.
C27_LoweredFunctionsAreChecked ==
    (Ran("lower") /\ failed # "lower") =>
        \A fn \in FnsOf(ast) :
            FnNamed(c_ast.fn_defs, fn.name) # <<>> =>
                /\ \A seed \in Seeds : BodyTypeErrors(fn, seed) = <<>>
                /\ p10_is_enabled(p10_config) => BodyViolations(fn, P10Rules) = <<>>

\* A function of an inlined module has been lowered.
C27_Witness ==
    /\ Ran("lower")
    /\ failed # "lower"
    /\ \E fn \in FnsOf(ast) :
            /\ fn \notin {TopFns(ast)[i] : i \in 1..Len(TopFns(ast))}
            /\ FnNamed(c_ast.fn_defs, fn.name) # <<>>



\* The kinds of C statement that stand for a statement of the kind k.
CKinds(k) ==
    CASE k = "Let" -> {"VarDecl"}
      [] k = "Discard" -> {"Expr"}
      [] k = "For" -> {"For", "While"}
      [] k \in {"Break", "Continue"} -> {"Break", "Goto"}
      [] OTHER -> {k}

RECURSIVE Corresponds(_, _), Embeds(_, _)

\* The C statement c stands for the statement stmt: it is of a kind for it
\* and holds, in order, statements for those nested in stmt.
Corresponds(stmt, c) ==
    /\ c.k \in CKinds(stmt.k)
    /\ stmt.k \in {"If", "While", "For", "Block"} => Embeds(stmt.body, c.body)
    /\ stmt.k = "If" => Embeds(stmt.els, c.els)

\* Every statement of stmts has a statement of its own in cstmts, in the
\* order of stmts.  An unsafe block stands for its statements; those of a
\* defer block run later and may stand anywhere in cstmts.
Embeds(stmts, cstmts) ==
    IF stmts = <<>> THEN TRUE
    ELSE IF Head(stmts).k = "Unsafe" THEN Embeds(Head(stmts).body \o Tail(stmts), cstmts)
    ELSE IF Head(stmts).k = "Defer"
    THEN /\ \A i \in 1..Len(Head(stmts).body) :
                \E j \in 1..Len(CFlatten(cstmts)) :
                    Corresponds(Head(stmts).body[i], CFlatten(cstmts)[j])
         /\ Embeds(Tail(stmts), cstmts)
    ELSE IF cstmts = <<>> THEN FALSE
    ELSE IF Corresponds(Head(stmts), Head(cstmts)) THEN Embeds(Tail(stmts), Tail(cstmts))
    ELSE Embeds(stmts, Tail(cstmts))

\* C28: once the lowerer has run, the body of every function of the program
\* has, for each of its statements, a statement of its own in the lowered C
\* function, in the order of the source.
C28_LoweringDropsNoStatement ==
    (Ran("lower") /\ failed # "lower") =>
        \A fn \in FnsOf(ast) :
            /\ FnNamed(c_ast.fn_defs, fn.name) # <<>>
            /\ Embeds(fn.body, FnNamed(c_ast.fn_defs, fn.name)[1].body)

\* A function with a loop, a block and hoisted statements has been lowered.
C28_Witness ==
    /\ Ran("lower")
    /\ failed # "lower"
    /\ \E fn \in FnsOf(ast) :
            /\ \E i \in 1..Len(fn.body) : fn.body[i].k \in {"While", "For", "Defer"}
            /\ FnNamed(c_ast.fn_defs, fn.name) # <<>>

\* The function has a while loop at some depth.
HasWhile(fn) == \E c \in {DirectStmt(fn.body[i]) : i \in 1..Len(fn.body)} :
                    \E j \in 1..Len(CFlatten(<<c>>)) : CFlatten(<<c>>)[j].k = "While"

\* C29: the lowered while loop evaluates its whole condition, hoisted
\* temporaries and checks included, before every iteration: the compiled
\* function runs the loop as long as the condition holds of the current
\* values and does what the source does.
C29_WhileConditionIsReevaluated ==
    (run.done /\ HasWhile(MainFn)) => run.lowered = run.direct

\* A function with a while loop has been run through an iteration.
C29_Witness ==
    /\ run.done
    /\ HasWhile(MainFn)
    /\ run.direct[1].status = "ret"
    /\ run.direct[1].ret # run.a

RECURSIVE ExternFns(_)

\* The prototypes of the extern blocks of the items.
ExternFns(items) ==
    IF items = <<>> THEN {}
    ELSE (CASE Head(items).k = "Extern" ->
                    {Head(items).items[i] : i \in 1..Len(Head(items).items)}
            [] Head(items).k = "Mod" -> ExternFns(Head(items).items)
            [] OTHER -> {})
         \cup ExternFns(Tail(items))

\* The calls of the function named name in safe context, in the functions
\* the type checker checks.
SafeCallsOf(name) ==
    UNION {{site.e : site \in {x \in FnSites(TopFns(ast)[i]) :
                        /\ ~x.in_unsafe
                        /\ x.e.k = "Call"
                        /\ x.e.kids[1].k = "Ident"
                        /\ x.e.kids[1].s = name}}
           : i \in 1..Len(TopFns(ast))}

\* C30: once the type checker has run, every call of a function of an
\* extern block outside unsafe context is reported at the call, whether or
\* not the prototype is written with unsafe, and the symbol of the function
\* records the unsafety its function type records.
C30_ExternFunctionsAreUnsafeToCall ==
    Ran("typecheck") =>
        \A fn_proto \in ExternFns(ast) :
            /\ \A call \in SafeCallsOf(fn_proto.name) :
                    /\ failed = "typecheck"
                    /\ \E i \in 1..Len(Diagnostics(result.err)) :
                            /\ Diagnostics(result.err)[i].msg
                                    = "call to unsafe function requires unsafe block"
                            /\ Diagnostics(result.err)[i].span = call.sp
            /\ lookup(symbols, fn_proto.name) # <<>>
            /\ lookup(symbols, fn_proto.name)[1].is_unsafe
                    = (lookup(symbols, fn_proto.name)[1].ty.s = "unsafe")

\* The type checker has run on a call of an extern function outside unsafe
\* context.
C30_Witness ==
    /\ Ran("typecheck")
    /\ \E fn_proto \in ExternFns(ast) : SafeCallsOf(fn_proto.name) # {}

==============================================================================
